---------------------------- MODULE Spec2Model ----------------------------
(***************************************************************************)
(* A model of the `ugly` pixel-font text layout engine, its cached font   *)
(* resource managers, its text writer and its stack widget.               *)
(*                                                                         *)
(* Characters are Unicode scalar values (integers); strings are sequences  *)
(* of characters.  Lengths are the i32 pixel lengths of metrics/length.rs; *)
(* all sizes in the model stay far below 2^31, so no i32 operation wraps.  *)
(***************************************************************************)
EXTENDS Integers, Sequences, FiniteSets, TLC

VARIABLES
    sys,           \* which subsystem this behaviour exercises
    slot_mapping,  \* Cached::slot_mapping : Spec -> Index
    cache,         \* Cached::cache : Vec<Rc<Data>>
    textures,      \* sdl Manager::textures : Spec -> Rc<Texture>
    calls,         \* history of the calls made on the managers (ghost)
    comp,          \* a metrics spec and the results of compiling it
    lay,           \* a string, its measurements and the builder laying it out
    grid,          \* a character and its place in the font texture
    wr,            \* a text::Writer and what it last rendered
    tab,           \* a chars::Subtable and the inserts made into it
    stk            \* a widgets::Stack and the outcome of laying it out

mgr_vars == <<slot_mapping, cache, textures, calls>>

vars == <<sys, slot_mapping, cache, textures, calls, comp, lay, grid, wr, tab, stk>>

\* What the actions of each subsystem leave alone.
non_mgr == <<sys, comp, lay, grid, wr, tab, stk>>

non_comp == <<sys, mgr_vars, lay, grid, wr, tab, stk>>

non_lay == <<sys, mgr_vars, comp, grid, wr, tab, stk>>

non_grid == <<sys, mgr_vars, comp, lay, wr, tab, stk>>

non_wr == <<sys, mgr_vars, comp, lay, grid, tab, stk>>

non_tab == <<sys, mgr_vars, comp, lay, grid, wr, stk>>

non_stk == <<sys, mgr_vars, comp, lay, grid, wr, tab>>

\* The value of a subsystem's variables in behaviours of another subsystem.
Idle == "idle"

(***************************************************************************)
(* Generic helpers.                                                        *)
(***************************************************************************)

\* The partial function f extended (or overwritten) at key k with value v.
Put(f, k, v) == [x \in (DOMAIN f) \cup {k} |-> IF x = k THEN v ELSE f[x]]

\* The empty partial function.
EmptyMap == [x \in {} |-> 0]

\* Option<T>: None is the empty sequence, Some(v) the one-element sequence.
None == <<>>

Some(v) == <<v>>

\* The orders in which a hash table with key set S can be iterated.
Orders(S) ==
    {o \in [1..Cardinality(S) -> S] : \A i, j \in DOMAIN o : i # j => o[i] # o[j]}

(***************************************************************************)
(* Font managers (font/manager.rs, backends/sdl/font.rs).                  *)
(***************************************************************************)

\* Bound on the number of manager calls in one behaviour.
MaxCalls == 3

FontIds == {"f1", "f2"}

ColourIds == {"c1", "c2"}

\* font::Spec<F, C>: a font id with a foreground colour id.
FontSpecs == [id : FontIds, colour : ColourIds]

\* The font ids that have an entry in the font path map.
KnownFonts == {"f1"}

\* resource::DefaultingHashMap::get over the font set: the entry, or the
\* default resource when the key is absent.  It cannot fail.
font_set_get(id) == IF id \in KnownFonts THEN id ELSE "default_font"

\* Font::texture_path: the texture file inside the font's directory.
texture_path(font) == <<font, "font.png">>

\* resource::Map::get over the colour set.
colour_set_get(colour) == <<"definition", colour>>

\* Loader::colourise: the loaded texture tinted with a colour definition.
colourise(tex, fg) == [path |-> tex.path, fg |-> fg]

\* Results of calls.  One record shape for all of them.
NoData == [path |-> <<>>, fg |-> <<>>]

Ok(index, dat) == [ok |-> TRUE, index |-> index, data |-> dat, err |-> "none"]

Err(e, index) == [ok |-> FALSE, index |-> index, data |-> NoData, err |-> e]

\* font::Index::default(), i.e. Index(0).
Index_default == 0

\* A fetch_uncached that does not record the new index in the slot mapping.
fetch_uncached_lost(sm, ca, spec, load_ok) ==
    LET path == texture_path(font_set_get(spec.id))
        col_tex == colourise([path |-> path], colour_set_get(spec.colour))
        ca2 == Append(ca, col_tex)
    IN  IF ~load_ok
        THEN [slot_mapping |-> sm, cache |-> ca, loaded |-> TRUE,
              colourised |-> FALSE, ret |-> Err("TextureLoad", -1)]
        ELSE [slot_mapping |-> sm, cache |-> ca2,
              loaded |-> TRUE, colourised |-> TRUE,
              ret |-> Ok(Len(ca2) - 1, NoData)]

\* A fetch_uncached that caches an untinted placeholder when the load fails.
fetch_uncached_placeholder(sm, ca, spec, load_ok) ==
    LET path == texture_path(font_set_get(spec.id))
        col_tex == colourise([path |-> path], colour_set_get(spec.colour))
        ca2 == Append(ca, IF load_ok THEN col_tex ELSE NoData)
        index == Len(ca2) - 1
    IN  [slot_mapping |-> Put(sm, spec, index), cache |-> ca2,
         loaded |-> TRUE, colourised |-> load_ok,
         ret |-> IF load_ok THEN Ok(index, NoData) ELSE Err("TextureLoad", -1)]

\* A fetch_uncached whose index is the cache length after the push.
fetch_uncached_off_by_one(sm, ca, spec, load_ok) ==
    LET path == texture_path(font_set_get(spec.id))
        col_tex == colourise([path |-> path], colour_set_get(spec.colour))
        ca2 == Append(ca, col_tex)
        index == Len(ca2)
    IN  IF ~load_ok
        THEN [slot_mapping |-> sm, cache |-> ca, loaded |-> TRUE,
              colourised |-> FALSE, ret |-> Err("TextureLoad", -1)]
        ELSE [slot_mapping |-> Put(sm, spec, index), cache |-> ca2,
              loaded |-> TRUE, colourised |-> TRUE,
              ret |-> Ok(index, NoData)]

\* A fetch_uncached that keeps only the newest font in the cache.
fetch_uncached_evicting(sm, ca, spec, load_ok) ==
    LET path == texture_path(font_set_get(spec.id))
        col_tex == colourise([path |-> path], colour_set_get(spec.colour))
    IN  IF ~load_ok
        THEN [slot_mapping |-> sm, cache |-> ca, loaded |-> TRUE,
              colourised |-> FALSE, ret |-> Err("TextureLoad", -1)]
        ELSE [slot_mapping |-> Put(sm, spec, 0), cache |-> <<col_tex>>,
              loaded |-> TRUE, colourised |-> TRUE, ret |-> Ok(0, NoData)]

\* Cached::fetch_uncached.  `load_ok` is the outcome of Loader::load.
fetch_uncached(sm, ca, spec, load_ok) ==
    LET path == texture_path(font_set_get(spec.id))
        col_tex == colourise([path |-> path], colour_set_get(spec.colour))
        ca2 == Append(ca, col_tex)
        index == Len(ca2) - 1
    IN  IF ~load_ok
        THEN [slot_mapping |-> sm, cache |-> ca, loaded |-> TRUE,
              colourised |-> FALSE, ret |-> Err("TextureLoad", -1)]
        ELSE [slot_mapping |-> Put(sm, spec, index), cache |-> ca2,
              loaded |-> TRUE, colourised |-> TRUE,
              ret |-> Ok(index, NoData)]

\* Cached::fetch.
fetch(sm, ca, spec, load_ok) ==
    IF spec \in DOMAIN sm
    THEN [slot_mapping |-> sm, cache |-> ca, loaded |-> FALSE,
          colourised |-> FALSE, ret |-> Ok(sm[spec], NoData)]
    ELSE fetch_uncached(sm, ca, spec, load_ok)

\* Cached::data: Vec::get on the cache; indices are 0-based.
data(ca, handle) ==
    IF handle < Len(ca) THEN Ok(handle, ca[handle + 1])
    ELSE Err("BadHandle", handle)

\* sdl Manager::load.
sdl_load(spec, load_ok) ==
    IF spec.id \notin KnownFonts
    THEN [loaded |-> FALSE, colourised |-> FALSE,
          ret |-> Err("TextureLoad", -1)]
    ELSE IF ~load_ok
    THEN [loaded |-> TRUE, colourised |-> FALSE,
          ret |-> Err("TextureLoad", -1)]
    ELSE [loaded |-> TRUE, colourised |-> TRUE,
          ret |-> Ok(-1, colourise([path |-> texture_path(spec.id)],
                                   colour_set_get(spec.colour)))]

\* sdl Manager::cache.
sdl_cache(tx, spec, load_ok) ==
    LET l == sdl_load(spec, load_ok)
    IN  IF l.ret.ok
        THEN [textures |-> Put(tx, spec, l.ret.data), loaded |-> l.loaded,
              colourised |-> l.colourised, ret |-> l.ret]
        ELSE [textures |-> tx, loaded |-> l.loaded,
              colourised |-> l.colourised, ret |-> l.ret]

\* sdl Manager::texture.
texture(tx, spec, load_ok) ==
    IF spec \in DOMAIN tx
    THEN [textures |-> tx, loaded |-> FALSE, colourised |-> FALSE,
          ret |-> Ok(-1, tx[spec])]
    ELSE sdl_cache(tx, spec, load_ok)

\* The spec field of a call that takes no spec.
NoSpec == [id |-> "none", colour |-> "none"]

\* One entry of the call history: the manager and operation called, its
\* argument (a spec or a handle), whether Loader::load and colourise ran
\* during the call, and what the call returned.
Call(mgr, op, spec, handle, r) ==
    [mgr |-> mgr, op |-> op, spec |-> spec, handle |-> handle,
     loaded |-> r.loaded, colourised |-> r.colourised, ret |-> r.ret]

MgrInit ==
    /\ sys = "mgr"
    /\ slot_mapping = EmptyMap
    /\ cache = <<>>
    /\ textures = EmptyMap
    /\ calls = <<>>
    /\ comp = Idle /\ lay = Idle /\ grid = Idle /\ wr = Idle /\ tab = Idle /\ stk = Idle

\* A call of Cached::fetch.  The load outcome is only drawn when the loader
\* is reached.
Fetch(spec) ==
    /\ sys = "mgr"
    /\ Len(calls) < MaxCalls
    /\ \E load_ok \in (IF spec \in DOMAIN slot_mapping THEN {TRUE} ELSE BOOLEAN) :
        LET r == fetch(slot_mapping, cache, spec, load_ok)
        IN  /\ slot_mapping' = r.slot_mapping
            /\ cache' = r.cache
            /\ calls' = Append(calls, Call("cached", "fetch", spec, -1, r))
    /\ UNCHANGED <<textures, non_mgr>>

\* A call of Cached::data.
Data(handle) ==
    /\ sys = "mgr"
    /\ Len(calls) < MaxCalls
    /\ calls' = Append(calls,
                       Call("cached", "data", NoSpec, handle,
                            [loaded |-> FALSE, colourised |-> FALSE,
                             ret |-> data(cache, handle)]))
    /\ UNCHANGED <<slot_mapping, cache, textures, non_mgr>>

\* A call of sdl Manager::texture.
Texture(spec) ==
    /\ sys = "mgr"
    /\ Len(calls) < MaxCalls
    /\ \E load_ok \in (IF spec \in DOMAIN textures \/ spec.id \notin KnownFonts
                       THEN {TRUE} ELSE BOOLEAN) :
        LET r == texture(textures, spec, load_ok)
        IN  /\ textures' = r.textures
            /\ calls' = Append(calls, Call("sdl", "texture", spec, -1, r))
    /\ UNCHANGED <<slot_mapping, cache, non_mgr>>

MgrNext ==
    \/ \E spec \in FontSpecs : Fetch(spec)
    \/ \E handle \in 0..MaxCalls : Data(handle)
    \/ \E spec \in FontSpecs : Texture(spec)

SpecMgr == MgrInit /\ [][MgrNext]_vars

(***************************************************************************)
(* Claims about the font managers.                                         *)
(***************************************************************************)

Managers == {"cached", "sdl"}

\* The positions in the history of the fetches of `spec` on manager `m`.
FetchesOf(m, spec) ==
    {i \in 1..Len(calls) : calls[i].mgr = m /\ calls[i].spec = spec}

\* C1 (as stated): for a fixed spec, over any sequence of N >= 1 fetches on
\* one manager, Loader.load is invoked exactly once in total and every call
\* returns what the first call returned.
C1_LoadExactlyOnce ==
    \A m \in Managers, spec \in FontSpecs :
        LET F == FetchesOf(m, spec)
        IN  F # {} =>
                /\ Cardinality({i \in F : calls[i].loaded}) = 1
                /\ \A i \in F, j \in F : calls[i].ret = calls[j].ret

\* C1 (amended): for a fixed spec, once a fetch has succeeded no later fetch
\* invokes Loader.load and every later fetch returns the handle of that
\* first success; a fetch on the cached manager that no success precedes
\* invokes Loader.load exactly once, whether it then succeeds or fails.
C1_LoadOncePerSuccess ==
    \A m \in Managers, spec \in FontSpecs :
        LET F == FetchesOf(m, spec)
        IN  /\ \A i \in F, j \in F :
                (i < j /\ calls[i].ret.ok) =>
                    (~calls[j].loaded /\ calls[j].ret = calls[i].ret)
            /\ \A j \in F :
                (m = "cached" /\ \A i \in F : i < j => ~calls[i].ret.ok)
                    => calls[j].loaded

\* C1 witness: a spec was fetched three times: the load failed, then it
\* succeeded, then the fetch was served from the cache.
C1_Witness ==
    \E spec \in FontSpecs :
        LET F == FetchesOf("cached", spec)
        IN  \E i \in F, j \in F, k \in F :
                /\ i < j /\ j < k
                /\ ~calls[i].ret.ok /\ calls[i].loaded
                /\ calls[j].ret.ok /\ calls[j].loaded
                /\ calls[k].ret = calls[j].ret /\ ~calls[k].loaded

(***************************************************************************)
(* Width and kerning compilation (font/metrics/width.rs, kerning.rs).      *)
(*                                                                         *)
(* A width spec is a hash table from class strings to lengths; a kerning   *)
(* spec has two class tables (class name -> string of characters) and a    *)
(* pair table ((left class, right class) -> length).  Hash tables are      *)
(* partial functions; the order in which one is iterated is an argument.   *)
(***************************************************************************)

\* Characters used by the model, as Unicode scalar values.
CR == 13

LF == 10

CH_I == 73

CH_a == 97

CH_b == 98

CH_c == 99

CH_g == 103

CH_i == 105

CH_n == 110

\* U+00FF: not ASCII, but it fits in a byte.
CH_yuml == 255

\* U+30B3: neither ASCII nor a byte.
CH_ko == 12467

\* A check that also rejects an override as wide as the grid.
overly_large_or_equal(grid_width, override_width) == grid_width <= override_width

\* The test in width::Spec::check: is the override wider than the grid?
overly_large(grid_width, override_width) == grid_width < override_width

WidthOk(map) == [ok |-> TRUE, map |-> map, grid_width |-> 0, override_width |-> 0]

OverlyLargeOverride(grid_width, override_width) ==
    [ok |-> FALSE, map |-> None, grid_width |-> grid_width,
     override_width |-> override_width]

\* width::Spec::check, over the table iterated in `order`: the first
\* override that is too large is reported.
RECURSIVE width_check(_, _, _)
width_check(spec, grid_width, order) ==
    IF order = <<>> THEN TRUE
    ELSE IF overly_large(grid_width, spec[Head(order)]) THEN FALSE
    ELSE width_check(spec, grid_width, Tail(order))

\* The override that width::Spec::check reports.
RECURSIVE width_check_error(_, _, _)
width_check_error(spec, grid_width, order) ==
    IF overly_large(grid_width, spec[Head(order)])
    THEN OverlyLargeOverride(grid_width, spec[Head(order)])
    ELSE width_check_error(spec, grid_width, Tail(order))

\* class.chars().map(|c| (c, l)) collected into the override map: a later
\* item replaces an earlier one with the same character.
RECURSIVE expand_class(_, _, _)
expand_class(overrides, class, l) ==
    IF class = <<>> THEN overrides
    ELSE expand_class(Put(overrides, Head(class), l), Tail(class), l)

\* width::Spec::expand_map, over the table iterated in `order`.
RECURSIVE expand_map(_, _, _)
expand_map(spec, order, overrides) ==
    IF order = <<>> THEN overrides
    ELSE expand_map(spec, Tail(order),
                    expand_class(overrides, Head(order), spec[Head(order)]))

\* width::Spec::into_map.
width_into_map(spec, grid_width, order) ==
    IF ~width_check(spec, grid_width, order)
    THEN width_check_error(spec, grid_width, order)
    ELSE WidthOk(Some([overrides |-> expand_map(spec, order, EmptyMap),
                       grid_width |-> grid_width]))

\* width::Map::get.
width_get(map, c) ==
    IF c \in DOMAIN map.overrides THEN map.overrides[c] ELSE map.grid_width

\* kerning::Spec::class_table.
class_table(spec, dir) == IF dir = "Left" THEN spec.left ELSE spec.right

KernOk(map) == [ok |-> TRUE, map |-> map, dir |-> "none", class |-> "none"]

MissingClass(dir, class) ==
    [ok |-> FALSE, map |-> None, dir |-> dir, class |-> class]

\* A class lookup that takes a missing class to be empty.
kerning_class_or_empty(spec, dir, class) ==
    IF class \in DOMAIN class_table(spec, dir)
    THEN KernOk(Some(class_table(spec, dir)[class]))
    ELSE KernOk(Some(<<>>))

\* kerning::Spec::class: the characters of a class, or MissingClass.
kerning_class(spec, dir, class) ==
    IF class \in DOMAIN class_table(spec, dir)
    THEN KernOk(Some(class_table(spec, dir)[class]))
    ELSE MissingClass(dir, class)

\* rights.chars().map(|r| (r, *length)) extended into (or collected as) the
\* right-hand map of one left character.
RECURSIVE extend_rights(_, _, _)
extend_rights(lmap, rights, length) ==
    IF rights = <<>> THEN lmap
    ELSE extend_rights(Put(lmap, Head(rights), length), Tail(rights), length)

\* The loop over lefts.chars() in kerning::Spec::into_map.
RECURSIVE add_lefts(_, _, _, _)
add_lefts(kerning_pairs, lefts, rights, length) ==
    IF lefts = <<>> THEN kerning_pairs
    ELSE LET l == Head(lefts)
             lmap == IF l \in DOMAIN kerning_pairs
                     THEN extend_rights(kerning_pairs[l], rights, length)
                     ELSE extend_rights(EmptyMap, rights, length)
         IN  add_lefts(Put(kerning_pairs, l, lmap), Tail(lefts), rights, length)

\* The loop over the pair table in kerning::Spec::into_map, iterated in
\* `order`; the first missing class ends it.
RECURSIVE kerning_loop(_, _, _)
kerning_loop(spec, order, kerning_pairs) ==
    IF order = <<>> THEN KernOk(Some(kerning_pairs))
    ELSE LET lclass == Head(order)[1]
             rclass == Head(order)[2]
             lefts == kerning_class(spec, "Left", lclass)
             rights == kerning_class(spec, "Right", rclass)
         IN  IF ~lefts.ok THEN lefts
             ELSE IF ~rights.ok THEN rights
             ELSE kerning_loop(spec, Tail(order),
                               add_lefts(kerning_pairs, lefts.map[1],
                                         rights.map[1], spec.pairs[Head(order)]))

\* kerning::Spec::into_map.
kerning_into_map(spec, default_spacing, order) ==
    LET r == kerning_loop(spec, order, EmptyMap)
    IN  IF ~r.ok THEN r
        ELSE KernOk(Some([kerning_pairs |-> r.map[1],
                          default_spacing |-> default_spacing]))

\* A spacing that never consults the kerning pairs.
spacing_default(map, left, right) == map.default_spacing

\* kerning::Map::spacing.
spacing(map, left, right) ==
    IF left \in DOMAIN map.kerning_pairs
       /\ right \in DOMAIN map.kerning_pairs[left]
    THEN map.kerning_pairs[left][right]
    ELSE map.default_spacing

\* metrics::Spec::into_metrics: the width map is compiled first, and its
\* error wins.
into_metrics(spec, worder, korder) ==
    LET widths == width_into_map(spec.width_overrides, spec.char.w, worder)
        kerning == kerning_into_map(spec.kerning, spec.pad.w, korder)
    IN  IF ~widths.ok THEN [ok |-> FALSE, metrics |-> None, werr |-> widths,
                            kerr |-> KernOk(None)]
        ELSE IF ~kerning.ok THEN [ok |-> FALSE, metrics |-> None,
                                  werr |-> WidthOk(None), kerr |-> kerning]
        ELSE [ok |-> TRUE,
              metrics |-> Some([char |-> spec.char, pad |-> spec.pad,
                                widths |-> widths.map[1],
                                kerning |-> kerning.map[1]]),
              werr |-> WidthOk(None), kerr |-> KernOk(None)]

(***************************************************************************)
(* Character tables (font/metrics/chars.rs).                               *)
(***************************************************************************)

\* The number of slots in Subtable::ascii.
AsciiSlots == 128

\* chars::as_ascii: the array slot of an ASCII character.
as_ascii(key) == IF key < AsciiSlots THEN Some(key) ELSE None

\* Subtable::new: every array slot None, and an empty map.  An array slot
\* holding None is a slot outside the domain of `ascii`.
Subtable_new == [ascii |-> EmptyMap, non_ascii |-> EmptyMap]

\* An insert that only stores ASCII keys.
Subtable_insert_ascii(t, key, val) ==
    IF as_ascii(key) # None
    THEN [t EXCEPT !.ascii = Put(t.ascii, as_ascii(key)[1], val)]
    ELSE t

\* Subtable::insert.
Subtable_insert(t, key, val) ==
    IF as_ascii(key) # None
    THEN [t EXCEPT !.ascii = Put(t.ascii, as_ascii(key)[1], val)]
    ELSE [t EXCEPT !.non_ascii = Put(t.non_ascii, key, val)]

\* Subtable::get (and get_mut).
Subtable_get(t, key) ==
    IF as_ascii(key) # None
    THEN IF as_ascii(key)[1] \in DOMAIN t.ascii
         THEN Some(t.ascii[as_ascii(key)[1]]) ELSE None
    ELSE IF key \in DOMAIN t.non_ascii THEN Some(t.non_ascii[key]) ELSE None

\* The keys of a BTreeMap in the order its iterator yields them.
RECURSIVE Ascending(_)
Ascending(S) ==
    IF S = {} THEN <<>>
    ELSE LET m == CHOOSE x \in S : \A y \in S : x <= y
         IN  <<m>> \o Ascending(S \ {m})

\* FromIterator for Subtable: the items inserted one after the other.
RECURSIVE Subtable_from_iter(_, _, _)
Subtable_from_iter(stab, keys, f) ==
    IF keys = <<>> THEN stab
    ELSE Subtable_from_iter(Subtable_insert(stab, Head(keys), f[Head(keys)]),
                            Tail(keys), f)

\* Entry::kerning.
Entry_kerning(entry, right) ==
    IF entry.rights = None THEN entry.default_kerning
    ELSE IF Subtable_get(entry.rights[1], right) = None
    THEN entry.default_kerning
    ELSE Subtable_get(entry.rights[1], right)[1]

\* chars::add_kerning, over the left characters in `lefts`.
RECURSIVE add_kerning(_, _, _, _)
add_kerning(table, lefts, kerning_pairs, default) ==
    IF lefts = <<>> THEN table
    ELSE LET char == Head(lefts)
             kern == kerning_pairs[char]
             rights == Some(Subtable_from_iter(Subtable_new,
                                               Ascending(DOMAIN kern), kern))
             entry == Subtable_get(table, char)
             table2 == IF entry # None
                       THEN Subtable_insert(table, char,
                                            [entry[1] EXCEPT !.rights = rights])
                       ELSE Subtable_insert(table, char,
                                            [default EXCEPT !.rights = rights])
         IN  add_kerning(table2, Tail(lefts), kerning_pairs, default)

\* chars::add_width, over the overridden characters in `chars`.
RECURSIVE add_width(_, _, _, _)
add_width(table, chars, overrides, default) ==
    IF chars = <<>> THEN table
    ELSE LET char == Head(chars)
             width == overrides[char]
             entry == Subtable_get(table, char)
             table2 == IF entry # None
                       THEN Subtable_insert(table, char,
                                            [entry[1] EXCEPT !.width = width])
                       ELSE Subtable_insert(table, char,
                                [width |-> width, rights |-> default.rights,
                                 default_kerning |-> default.default_kerning])
         IN  add_width(table2, Tail(chars), overrides, default)

\* Table::new: kerning is compiled and merged first, then the widths.
Table_new(width, default_width, kerning, default_kerning, worder, korder) ==
    LET default == [width |-> default_width, rights |-> None,
                    default_kerning |-> default_kerning]
        k == kerning_into_map(kerning, default_kerning, korder)
        w == width_into_map(width, default_width, worder)
    IN  IF ~k.ok THEN [ok |-> FALSE, table |-> None]
        ELSE IF ~w.ok THEN [ok |-> FALSE, table |-> None]
        ELSE LET kp == k.map[1].kerning_pairs
                 ov == w.map[1].overrides
                 t1 == add_kerning(Subtable_new, Ascending(DOMAIN kp), kp, default)
                 t2 == add_width(t1, Ascending(DOMAIN ov), ov, default)
             IN  [ok |-> TRUE,
                  table |-> Some([entries |-> t2, default |-> default])]

\* An index that falls back on Entry::default(), which has everything zeroed,
\* rather than on the default entry of the table.
Table_index_zeroed(table, index) ==
    IF Subtable_get(table.entries, index) = None
    THEN [width |-> 0, rights |-> None, default_kerning |-> 0]
    ELSE Subtable_get(table.entries, index)[1]

\* impl Index<char> for Table.
Table_index(table, index) ==
    IF Subtable_get(table.entries, index) = None THEN table.default
    ELSE Subtable_get(table.entries, index)[1]

(***************************************************************************)
(* Compiling metrics specs: the inputs and the state machine.              *)
(***************************************************************************)

\* Bound on the number of entries of a kerning pair table.
MaxPairs == 2

\* Bound on the number of compilations of one spec in one behaviour.
MaxCompiles == 2

\* The restriction of function f to the keys in D.
Restrict(f, D) == [x \in D |-> f[x]]

\* The grid cell and padding of the compiled specs.
CompChar == [w |-> 2, h |-> 2]

CompPad == [w |-> 1, h |-> 1]

\* Width override classes: "iI" and "I" with U+30B3; they share 'I'.
WidthClasses == {<<CH_i, CH_I>>, <<CH_I, CH_ko>>}

\* Override lengths: negative, narrower than, equal to and wider than the grid.
OverrideLengths == {-1, 1, CompChar.w, CompChar.w + 1}

WidthSpecs == UNION {[D -> OverrideLengths] : D \in SUBSET WidthClasses}

ClassNames == {"A", "B"}

LeftClasses == [c \in ClassNames |-> IF c = "A" THEN <<CH_a, CH_b>> ELSE <<CH_a, CH_ko>>]

RightClasses == [c \in ClassNames |-> IF c = "A" THEN <<CH_i>> ELSE <<CH_i, CH_yuml>>]

\* Class tables: class "B" may be missing on either side.
ClassDomains == {{"A"}, {"A", "B"}}

KerningLengths == {-1, 2}

PairTables ==
    UNION {[D -> KerningLengths] :
              D \in {E \in SUBSET (ClassNames \X ClassNames) : Cardinality(E) <= MaxPairs}}

KerningSpecs ==
    {[left |-> Restrict(LeftClasses, l), right |-> Restrict(RightClasses, r),
      pairs |-> p] : l \in ClassDomains, r \in ClassDomains, p \in PairTables}

\* metrics::Spec values.
MetricsSpecs ==
    {[char |-> CompChar, pad |-> CompPad, width_overrides |-> w, kerning |-> k] :
        w \in WidthSpecs, k \in KerningSpecs}

\* The characters the compiled tables are queried at.
QueryChars == {CH_a, CH_b, CH_i, CH_I, CH_yuml, CH_ko, CH_c}

CompInit ==
    /\ sys = "compile"
    /\ comp \in [spec : MetricsSpecs, outs : {<<>>}]
    /\ slot_mapping = Idle /\ cache = Idle /\ textures = Idle /\ calls = Idle
    /\ lay = Idle /\ grid = Idle /\ wr = Idle /\ tab = Idle /\ stk = Idle

\* One compilation of the spec: width::Spec::into_map, kerning::Spec::into_map,
\* Spec::into_metrics and Table::new, with the hash tables iterated in some
\* order.
Compile ==
    /\ sys = "compile"
    /\ Len(comp.outs) < MaxCompiles
    /\ \E worder \in Orders(DOMAIN comp.spec.width_overrides),
          korder \in Orders(DOMAIN comp.spec.kerning.pairs) :
        comp' = [comp EXCEPT !.outs = Append(@,
            [widths |-> width_into_map(comp.spec.width_overrides,
                                       comp.spec.char.w, worder),
             kerning |-> kerning_into_map(comp.spec.kerning,
                                          comp.spec.pad.w, korder),
             metrics |-> into_metrics(comp.spec, worder, korder),
             table |-> Table_new(comp.spec.width_overrides, comp.spec.char.w,
                                 comp.spec.kerning, comp.spec.pad.w,
                                 worder, korder)])]
    /\ UNCHANGED non_comp

CompNext == Compile

SpecCompile == CompInit /\ [][CompNext]_vars

(***************************************************************************)
(* Claims about compilation.                                               *)
(***************************************************************************)

\* The (direction, class) references of the pair table that name no class.
MissingRefs(k) ==
    {<<"Left", p[1]>> : p \in {q \in DOMAIN k.pairs : q[1] \notin DOMAIN k.left}}
    \cup
    {<<"Right", p[2]>> : p \in {q \in DOMAIN k.pairs : q[2] \notin DOMAIN k.right}}

\* C8: compiling a kerning spec fails with MissingClass, naming a direction
\* and class that some pair refers to and that is not in the class table of
\* that direction, whenever there is such a pair, and then gives no map; it
\* succeeds whenever every pair's two classes are defined.
C8_MissingClass ==
    sys = "compile" =>
        \A n \in 1..Len(comp.outs) :
            LET out == comp.outs[n].kerning
                missing == MissingRefs(comp.spec.kerning)
            IN  /\ out.ok <=> missing = {}
                /\ out.ok => out.map # None
                /\ ~out.ok => /\ out.map = None
                              /\ <<out.dir, out.class>> \in missing
                              /\ ~comp.outs[n].table.ok

\* C8 witness: a compilation failed on a missing right class in a spec that
\* has that class name in its left table.
C8_Witness ==
    /\ sys = "compile"
    /\ \E n \in 1..Len(comp.outs) :
        /\ ~comp.outs[n].kerning.ok
        /\ comp.outs[n].kerning.dir = "Right"
        /\ comp.outs[n].kerning.class \in DOMAIN comp.spec.kerning.left

\* C9: compiling width overrides fails with OverlyLargeOverride, carrying
\* the grid width and an override that exceeds it, if and only if some
\* override is greater than the grid width; an override equal to the grid
\* width is accepted; a failure yields no width map and no Metrics.
C9_OverlyLargeOverride ==
    sys = "compile" =>
        \A n \in 1..Len(comp.outs) :
            LET out == comp.outs[n].widths
                w == comp.spec.width_overrides
                large == {w[c] : c \in {d \in DOMAIN w : w[d] > comp.spec.char.w}}
            IN  /\ out.ok <=> large = {}
                /\ out.ok => out.map # None
                /\ ~out.ok => /\ out.map = None
                              /\ out.grid_width = comp.spec.char.w
                              /\ out.override_width \in large
                              /\ ~comp.outs[n].metrics.ok
                              /\ comp.outs[n].metrics.metrics = None

\* C9 witness: a compilation was rejected for an override one wider than the
\* grid, in a spec whose other override is as wide as the grid.
C9_Witness ==
    /\ sys = "compile"
    /\ \E n \in 1..Len(comp.outs) :
        /\ ~comp.outs[n].widths.ok
        /\ comp.outs[n].widths.override_width = comp.spec.char.w + 1
        /\ \E c \in DOMAIN comp.spec.width_overrides :
            comp.spec.width_overrides[c] = comp.spec.char.w

\* C10: two compilations of the same well-formed spec give the same width
\* for every character and the same spacing for every pair of characters,
\* whatever order the tables were iterated in.
C10_CompilePure ==
    sys = "compile" =>
        \A n1, n2 \in 1..Len(comp.outs) :
            LET m1 == comp.outs[n1].metrics
                m2 == comp.outs[n2].metrics
            IN  (m1.ok /\ m2.ok) =>
                    /\ \A c \in QueryChars :
                        width_get(m1.metrics[1].widths, c)
                            = width_get(m2.metrics[1].widths, c)
                    /\ \A l, r \in QueryChars :
                        spacing(m1.metrics[1].kerning, l, r)
                            = spacing(m2.metrics[1].kerning, l, r)

(***************************************************************************)
(* Geometry (metrics/size.rs, anchor.rs, point.rs, rect.rs).               *)
(***************************************************************************)

Size_default == [w |-> 0, h |-> 0]

Point_default == [x |-> 0, y |-> 0]

Delta_default == [dx |-> 0, dy |-> 0]

Rect_default == [top_left |-> Point_default, size |-> Size_default]

\* A stacking that takes the width of the size stacked underneath.
stack_vertically_replacing(self, other) ==
    [w |-> other.w, h |-> self.h + other.h]

\* Size::stack_vertically: the maximum horizontally, the sum vertically.
stack_vertically(self, other) ==
    [w |-> IF self.w < other.w THEN other.w ELSE self.w, h |-> self.h + other.h]

\* anchor::X::offset.
X_offset(anchor, width) == IF anchor = "Left" THEN 0 ELSE width

\* Rect::x.
Rect_x(rect, dx, anchor) == rect.top_left.x + dx + X_offset(anchor, rect.size.w)

\* Point::to_rect with Anchor::TOP_LEFT: both anchor offsets are 0.
to_rect_top_left(point, size) ==
    [top_left |-> [x |-> point.x - X_offset("Left", size.w), y |-> point.y],
     size |-> size]

(***************************************************************************)
(* Font metrics (font/metrics.rs).                                         *)
(***************************************************************************)

\* The number of columns in a font.
NUM_COLS == 32

\* The number of values of the u8 glyph index.
U8_RANGE == 256

\* Metrics::padded_w.
padded_w(m) == m.char.w + m.pad.w

\* Metrics::padded_h.
padded_h(m) == m.char.h + m.pad.h

\* metrics::char_to_ascii: u8::try_from(c).ok().
char_to_ascii(c) == IF c < U8_RANGE THEN Some(c) ELSE None

\* metrics::glyph_col.
glyph_col(char) == char % NUM_COLS

\* metrics::glyph_row.
glyph_row(char) == char \div NUM_COLS

\* A glyph_axis that multiplies in u8, where the product wraps, and converts
\* the result to a Length afterwards.
glyph_axis_in_u8(index, size) == (index * size) % U8_RANGE

\* metrics::glyph_axis: the index is converted to a Length, then multiplied.
glyph_axis(index, size) == index * size

\* Metrics::glyph_top_left.
glyph_top_left(m, char) ==
    IF char_to_ascii(char) = None THEN Point_default
    ELSE [x |-> glyph_axis(glyph_col(char_to_ascii(char)[1]), padded_w(m)),
          y |-> glyph_axis(glyph_row(char_to_ascii(char)[1]), padded_h(m))]

\* Metrics::span_w_char.
span_w_char(m, c) == width_get(m.widths, c)

\* Metrics::glyph_size.
glyph_size(m, c) == [w |-> width_get(m.widths, c), h |-> m.char.h]

\* Metrics::glyph_rect.
glyph_rect(m, char) == to_rect_top_left(glyph_top_left(m, char), glyph_size(m, char))

(***************************************************************************)
(* The glyph layout iterator (font/metrics/layout_iter.rs) and             *)
(* Metrics::span_w_str.                                                    *)
(***************************************************************************)

\* kerning::LeftMap::default(): no kerning pairs and no spacing, so that the
\* first character of a string moves by 0.
LeftMap_default == [rights |-> None, default_spacing |-> 0]

\* kerning::Map::for_left: the kerning of one left character.
for_left(map, left) ==
    [rights |-> IF left \in DOMAIN map.kerning_pairs
                THEN Some(map.kerning_pairs[left]) ELSE None,
     default_spacing |-> map.default_spacing]

\* kerning::LeftMap::get: the spacing before the right character.
LeftMap_get(lmap, right) ==
    IF lmap.rights # None /\ right \in DOMAIN lmap.rights[1]
    THEN lmap.rights[1][right]
    ELSE lmap.default_spacing

\* LayoutIter::new.
LayoutIter_new(top_left) ==
    [top_left |-> top_left,
     last_char |-> [width |-> 0, kerning |-> LeftMap_default]]

\* A layout_char that advances by the width of the last character only.
LayoutIter_layout_char_unspaced(m, it, char) ==
    LET top_left == [x |-> it.top_left.x + it.last_char.width,
                     y |-> it.top_left.y]
        src_rect == glyph_rect(m, char)
    IN  [it |-> [top_left |-> top_left,
                 last_char |-> [width |-> src_rect.size.w,
                                kerning |-> for_left(m.kerning, char)]],
         glyph |-> [src |-> src_rect,
                    dst |-> [top_left |-> top_left, size |-> src_rect.size]]]

\* LayoutIter::layout_char: the iterator after the character, and its glyph.
LayoutIter_layout_char(m, it, char) ==
    LET top_left == [x |-> it.top_left.x + it.last_char.width
                              + LeftMap_get(it.last_char.kerning, char),
                     y |-> it.top_left.y + 0]
        src_rect == glyph_rect(m, char)
    IN  [it |-> [top_left |-> top_left,
                 last_char |-> [width |-> src_rect.size.w,
                                kerning |-> for_left(m.kerning, char)]],
         glyph |-> [src |-> src_rect,
                    dst |-> [top_left |-> top_left, size |-> src_rect.size]]]

\* Iterator::last over the LayoutIter: the glyph of the last character, if
\* there is one.
RECURSIVE LayoutIter_last(_, _, _, _)
LayoutIter_last(m, it, str, last) ==
    IF str = <<>> THEN last
    ELSE LET r == LayoutIter_layout_char(m, it, Head(str))
         IN  LayoutIter_last(m, r.it, Tail(str), Some(r.glyph))

\* Metrics::span_w_str: the right edge of the last glyph, or 0.
span_w_str(m, str) ==
    LET last == LayoutIter_last(m, LayoutIter_new(Point_default), str, None)
    IN  IF last = None THEN 0 ELSE Rect_x(last[1].dst, 0, "Right")

(***************************************************************************)
(* The string layout builder (font/layout.rs).                             *)
(*                                                                         *)
(* A GlyphSet is a partial function from source rectangles to sequences of *)
(* destination deltas.  The builder's metrics are passed beside it.        *)
(***************************************************************************)

GlyphSet_default == EmptyMap

\* layout::String::default().
String_default == [string |-> <<>>, bounds |-> Rect_default, glyphs |-> GlyphSet_default]

\* Line::default().  `text` is a ghost field: the characters laid out in
\* the line so far.
Line_default == [size |-> Size_default, glyphs |-> GlyphSet_default, text |-> <<>>]

\* GlyphSet::push.
GlyphSet_push(glyphs, src, delta) ==
    Put(glyphs, src, (IF src \in DOMAIN glyphs THEN glyphs[src] ELSE <<>>) \o <<delta>>)

\* GlyphSet::extend.
GlyphSet_extend(glyphs, src, deltas) ==
    Put(glyphs, src, (IF src \in DOMAIN glyphs THEN glyphs[src] ELSE <<>>) \o deltas)

\* GlyphSet::merge: every entry of `other` extended into `self`.  Each
\* source rectangle is extended once, so the order of the loop is immaterial.
GlyphSet_merge(self, other) ==
    [src \in (DOMAIN self) \cup (DOMAIN other) |->
        IF src \in DOMAIN other
        THEN GlyphSet_extend(self, src, other[src])[src]
        ELSE self[src]]

\* GlyphSet::realign.
GlyphSet_realign(glyphs, alignment, line_width, total_width) ==
    LET dw == X_offset(alignment, total_width - line_width)
    IN  IF dw = 0 THEN glyphs
        ELSE [src \in DOMAIN glyphs |->
                [i \in 1..Len(glyphs[src]) |->
                    [glyphs[src][i] EXCEPT !.dx = @ + dw]]]

\* A builder whose first line is as high as a later one: the padded height.
Builder_new_padded(m, alignment) ==
    [bounds |-> Rect_default,
     padded_h |-> padded_h(m),
     alignment |-> alignment,
     cursor |-> Delta_default,
     last_char_metrics |-> None,
     current_line |-> [size |-> [w |-> 0, h |-> padded_h(m)],
                       glyphs |-> GlyphSet_default, text |-> <<>>],
     finished_lines |-> <<>>]

\* Builder::new followed by Builder::with_alignment.
Builder_new(m, alignment) ==
    [bounds |-> Rect_default,
     padded_h |-> padded_h(m),
     alignment |-> alignment,
     cursor |-> Delta_default,
     last_char_metrics |-> None,
     current_line |-> [size |-> [w |-> 0, h |-> m.char.h],
                       glyphs |-> GlyphSet_default, text |-> <<>>],
     finished_lines |-> <<>>]

\* A carriage return that keeps the last character.
carriage_return_keeping(b) == [b EXCEPT !.cursor.dx = 0]

\* Builder::carriage_return.
carriage_return(b) ==
    [b EXCEPT !.cursor.dx = 0, !.last_char_metrics = None]

\* A line_feed that commits the current line even when it is empty.
line_feed_unguarded(b) ==
    [b EXCEPT !.cursor = [dx |-> 0, dy |-> b.cursor.dy + b.padded_h],
              !.bounds.size = stack_vertically(b.bounds.size, b.current_line.size),
              !.last_char_metrics = None,
              !.finished_lines = Append(b.finished_lines, b.current_line),
              !.current_line = [Line_default EXCEPT !.size.h = b.padded_h]]

\* A line feed that commits the line but goes on with it.
line_feed_keeping(b) ==
    IF b.current_line.size.w = 0 THEN b
    ELSE [b EXCEPT !.cursor = [dx |-> 0, dy |-> b.cursor.dy + b.padded_h],
                   !.bounds.size = stack_vertically(b.bounds.size, b.current_line.size),
                   !.last_char_metrics = None,
                   !.finished_lines = Append(b.finished_lines, b.current_line),
                   !.current_line.size.h = b.padded_h]

\* Builder::line_feed.
line_feed(b) ==
    IF b.current_line.size.w = 0 THEN b
    ELSE [b EXCEPT !.cursor = [dx |-> 0, dy |-> b.cursor.dy + b.padded_h],
                   !.bounds.size = stack_vertically(b.bounds.size, b.current_line.size),
                   !.last_char_metrics = None,
                   !.finished_lines = Append(b.finished_lines, b.current_line),
                   !.current_line = [Line_default EXCEPT !.size.h = b.padded_h]]

\* Builder::move_right_with_kerning.
move_right_with_kerning(b, char, metrics) ==
    [b EXCEPT !.cursor.dx = @ + metrics.width + Entry_kerning(metrics, char),
              !.current_line.size.w = @ + Entry_kerning(metrics, char)]

\* Builder::char_src_rect.
char_src_rect(m, char, metrics) ==
    to_rect_top_left(glyph_top_left(m, char),
                     [w |-> metrics.width, h |-> m.char.h])

\* Builder::layout_char.
layout_char(m, b, char) ==
    LET char_metrics == Table_index(m.chars, char)
        b1 == [b EXCEPT !.current_line.size.w = @ + char_metrics.width,
                        !.last_char_metrics = Some(char_metrics)]
        b2 == IF b.last_char_metrics # None
              THEN move_right_with_kerning(b1, char, b.last_char_metrics[1])
              ELSE b1
        src == char_src_rect(m, char, char_metrics)
    IN  [b2 EXCEPT !.current_line.glyphs = GlyphSet_push(@, src, b2.cursor),
                   !.current_line.text = Append(@, char)]

\* The body of the loop of Builder::do_layout: one character.
do_layout_char(m, b, char) ==
    CASE char = CR -> carriage_return(b)
      [] char = LF -> line_feed(b)
      [] OTHER -> layout_char(m, b, char)

\* The loop of Builder::do_layout.
RECURSIVE do_layout_loop(_, _, _)
do_layout_loop(m, b, string) ==
    IF string = <<>> THEN b
    ELSE do_layout_loop(m, do_layout_char(m, b, Head(string)), Tail(string))

\* Builder::do_layout: the loop, then the implicit newline.
do_layout(m, b, string) == line_feed(do_layout_loop(m, b, string))

\* The loop over the finished lines in Builder::build.
RECURSIVE build_glyphs(_, _, _)
build_glyphs(b, lines, glyphs) ==
    IF lines = <<>> THEN glyphs
    ELSE LET line == Head(lines)
             line_glyphs == GlyphSet_realign(line.glyphs, b.alignment,
                                             line.size.w, b.bounds.size.w)
         IN  build_glyphs(b, Tail(lines), GlyphSet_merge(glyphs, line_glyphs))

\* The end of Builder::build: the laid-out string of a builder that has run
\* do_layout.
build_string(b, string) ==
    [string |-> string, bounds |-> b.bounds,
     glyphs |-> build_glyphs(b, b.finished_lines, GlyphSet_default)]

\* A build that lays out the empty string as any other, and commits its
\* last line even when the line is empty.
build_committing(m, alignment, string) ==
    build_string(line_feed_unguarded(
                    do_layout_loop(m, Builder_new(m, alignment), string)), string)

\* Builder::build.
build(m, alignment, string) ==
    IF string = <<>> THEN String_default
    ELSE build_string(do_layout(m, Builder_new(m, alignment), string), string)

\* Builder::dry_run, on a builder made by Builder::new and with_alignment.
dry_run(m, alignment, string) ==
    do_layout(m, Builder_new(m, alignment), string).bounds

(***************************************************************************)
(* Laying out strings: the inputs and the state machine.                   *)
(***************************************************************************)

\* Bound on the length of the strings laid out.
MaxStrLen == 4

LayoutFontNames == {"big", "kerned", "tight", "negative"}

NoKerning == [left |-> EmptyMap, right |-> EmptyMap, pairs |-> EmptyMap]

\* "big" is big_font of the tests of font/metrics.rs; "kerned" has a narrow
\* 'i' and pulls 'a' and 'b' one pixel into a following 'i' or 'b'; "tight"
\* has an 'i' of no width and a kerning of "aa" that cancels their widths;
\* "negative" has an 'i' of negative width and a kerning of "aa" that
\* exceeds their widths.
LayoutSpecs ==
    [f \in LayoutFontNames |->
        CASE f = "big" ->
                [char |-> [w |-> 9, h |-> 9], pad |-> [w |-> 1, h |-> 1],
                 width_overrides |-> [c \in {<<CH_i, CH_I>>} |-> 1],
                 kerning |-> NoKerning]
          [] f = "kerned" ->
                [char |-> [w |-> 3, h |-> 2], pad |-> [w |-> 1, h |-> 1],
                 width_overrides |-> [c \in {<<CH_i>>} |-> 1],
                 kerning |-> [left |-> [c \in {"A"} |-> <<CH_a, CH_b>>],
                              right |-> [c \in {"A"} |-> <<CH_i, CH_b>>],
                              pairs |-> [p \in {<<"A", "A">>} |-> -1]]]
          [] f = "tight" ->
                [char |-> [w |-> 2, h |-> 3], pad |-> [w |-> 1, h |-> 2],
                 width_overrides |-> [c \in {<<CH_i>>} |-> 0],
                 kerning |-> [left |-> [c \in {"A"} |-> <<CH_a>>],
                              right |-> [c \in {"A"} |-> <<CH_a>>],
                              pairs |-> [p \in {<<"A", "A">>} |-> -4]]]
          [] OTHER ->
                [char |-> [w |-> 2, h |-> 3], pad |-> [w |-> 1, h |-> 0],
                 width_overrides |-> [c \in {<<CH_i>>} |-> -1],
                 kerning |-> [left |-> [c \in {"A"} |-> <<CH_a>>],
                              right |-> [c \in {"A"} |-> <<CH_a>>],
                              pairs |-> [p \in {<<"A", "A">>} |-> -5]]]]

\* The Metrics of a spec whose tables each have one entry: the width and
\* kerning maps of Spec::into_metrics and the character table of Table::new.
Compiled(spec) ==
    LET worder == CHOOSE o \in Orders(DOMAIN spec.width_overrides) : TRUE
        korder == CHOOSE o \in Orders(DOMAIN spec.kerning.pairs) : TRUE
        metrics == into_metrics(spec, worder, korder).metrics[1]
        table == Table_new(spec.width_overrides, spec.char.w, spec.kerning,
                           spec.pad.w, worder, korder).table[1]
    IN  [char |-> metrics.char, pad |-> metrics.pad, widths |-> metrics.widths,
         kerning |-> metrics.kerning, chars |-> table]

LayoutMetrics == [f \in LayoutFontNames |-> Compiled(LayoutSpecs[f])]

LayoutChars == {CH_a, CH_b, CH_i, CR, LF}

\* "Icing", the string of the test span_w_str_overrides.
Icing == <<CH_I, CH_c, CH_i, CH_n, CH_g>>

Strings == (UNION {[1..n -> LayoutChars] : n \in 0..MaxStrLen}) \cup {Icing}

Alignments == {"Left", "Right"}

\* The metrics of the font being laid out with.
Font == LayoutMetrics[lay.font]

LayInit ==
    /\ sys = "layout"
    /\ lay \in [font : LayoutFontNames, alignment : Alignments, string : Strings,
                pc : {"new"}, pos : {0}, span : {None}, dry : {None},
                b : {None}, out : {None}]
    /\ slot_mapping = Idle /\ cache = Idle /\ textures = Idle /\ calls = Idle
    /\ comp = Idle /\ grid = Idle /\ wr = Idle /\ tab = Idle /\ stk = Idle

\* Metrics::span_w_str applied to the string.
SpanWStr ==
    /\ sys = "layout" /\ lay.pc = "new"
    /\ lay' = [lay EXCEPT !.pc = "span", !.span = Some(span_w_str(Font, lay.string))]
    /\ UNCHANGED non_lay

\* Builder::dry_run applied to the string; then a builder is made for build.
DryRun ==
    /\ sys = "layout" /\ lay.pc = "span"
    /\ lay' = [lay EXCEPT !.pc = "ready",
                          !.dry = Some(dry_run(Font, lay.alignment, lay.string)),
                          !.b = Some(Builder_new(Font, lay.alignment))]
    /\ UNCHANGED non_lay

\* Builder::build of the empty string.
BuildEmpty ==
    /\ sys = "layout" /\ lay.pc = "ready" /\ lay.string = <<>>
    /\ lay' = [lay EXCEPT !.pc = "done",
                          !.out = Some(build(Font, lay.alignment, lay.string))]
    /\ UNCHANGED non_lay

\* One turn of the loop of do_layout within build, on the next character.
LayoutStep(char) ==
    /\ sys = "layout" /\ lay.pc \in {"ready", "loop"}
    /\ lay.pos < Len(lay.string)
    /\ lay.string[lay.pos + 1] = char
    /\ lay' = [lay EXCEPT !.pc = "loop", !.pos = @ + 1,
                          !.b = Some(do_layout_char(Font, lay.b[1], char))]
    /\ UNCHANGED non_lay

StepCarriageReturn == LayoutStep(CR)

StepLineFeed == LayoutStep(LF)

\* The characters of the strings other than '\r' and '\n'.
GlyphChars == (LayoutChars \cup {CH_I, CH_c, CH_n, CH_g}) \ {CR, LF}

StepChar == \E char \in GlyphChars : LayoutStep(char)

\* The implicit newline that ends do_layout.
ImplicitLineFeed ==
    /\ sys = "layout" /\ lay.pc = "loop"
    /\ lay.pos = Len(lay.string)
    /\ lay' = [lay EXCEPT !.pc = "laid", !.b = Some(line_feed(lay.b[1]))]
    /\ UNCHANGED non_lay

\* The rest of build: the lines are realigned and merged.
BuildString ==
    /\ sys = "layout" /\ lay.pc = "laid"
    /\ lay' = [lay EXCEPT !.pc = "done",
                          !.out = Some(build_string(lay.b[1], lay.string))]
    /\ UNCHANGED non_lay

LayNext ==
    \/ SpanWStr
    \/ DryRun
    \/ BuildEmpty
    \/ StepCarriageReturn
    \/ StepLineFeed
    \/ StepChar
    \/ ImplicitLineFeed
    \/ BuildString

SpecLayout == LayInit /\ [][LayNext]_vars

(***************************************************************************)
(* Glyph addressing: the inputs and the state machine.                     *)
(***************************************************************************)

\* The padded cell sizes addressed: big_font's, and one wider than tall.
GridMetrics ==
    {[char |-> [w |-> 9, h |-> 9], pad |-> [w |-> 1, h |-> 1]],
     [char |-> [w |-> 12, h |-> 7], pad |-> [w |-> 0, h |-> 2]]}

\* Every character that fits in a byte, and one that does not.
GridChars == 0..(U8_RANGE - 1) \cup {CH_ko}

GridInit ==
    /\ sys = "grid"
    /\ grid \in [m : GridMetrics, char : GridChars, top_left : {None}]
    /\ slot_mapping = Idle /\ cache = Idle /\ textures = Idle /\ calls = Idle
    /\ comp = Idle /\ lay = Idle /\ wr = Idle /\ tab = Idle /\ stk = Idle

\* Metrics::glyph_top_left applied to the character.
GlyphTopLeft ==
    /\ sys = "grid" /\ grid.top_left = None
    /\ grid' = [grid EXCEPT !.top_left = Some(glyph_top_left(grid.m, grid.char))]
    /\ UNCHANGED non_grid

GridNext == GlyphTopLeft

SpecGrid == GridInit /\ [][GridNext]_vars

(***************************************************************************)
(* Claims about glyph addressing and layout.                               *)
(***************************************************************************)

\* The characters of a class string.
CharsOf(class) == {class[i] : i \in DOMAIN class}

\* The width the metrics spec gives a character: the length of an override
\* class that contains it, the grid width otherwise.
SpecWidth(spec, c) ==
    LET classes == {k \in DOMAIN spec.width_overrides : c \in CharsOf(k)}
    IN  IF classes = {} THEN spec.char.w
        ELSE spec.width_overrides[CHOOSE k \in classes : TRUE]

\* The spacing the metrics spec gives a pair of characters: the length of a
\* kerning pair whose classes contain them, the padding otherwise.
SpecSpacing(spec, l, r) ==
    LET k == spec.kerning
        pairs == {p \in DOMAIN k.pairs :
                     /\ p[1] \in DOMAIN k.left /\ l \in CharsOf(k.left[p[1]])
                     /\ p[2] \in DOMAIN k.right /\ r \in CharsOf(k.right[p[2]])}
    IN  IF pairs = {} THEN spec.pad.w ELSE k.pairs[CHOOSE p \in pairs : TRUE]

\* The widths of the characters of s, added up.
RECURSIVE SumWidths(_, _)
SumWidths(spec, s) ==
    IF s = <<>> THEN 0 ELSE SpecWidth(spec, Head(s)) + SumWidths(spec, Tail(s))

\* The spacings between the adjacent characters of s, added up.
RECURSIVE SumSpacings(_, _)
SumSpacings(spec, s) ==
    IF Len(s) < 2 THEN 0
    ELSE SpecSpacing(spec, s[1], s[2]) + SumSpacings(spec, Tail(s))

\* The lines of s: the parts between its '\n' characters.
RECURSIVE SplitLines(_, _)
SplitLines(s, line) ==
    IF s = <<>> THEN <<line>>
    ELSE IF Head(s) = LF THEN <<line>> \o SplitLines(Tail(s), <<>>)
    ELSE SplitLines(Tail(s), Append(line, Head(s)))

\* The greatest width among the given lines, each laid out alone.
RECURSIVE MaxLineWidth(_, _)
MaxLineWidth(m, lines) ==
    IF lines = <<>> THEN 0
    ELSE LET w == dry_run(m, "Left", Head(lines)).size.w
             rest == MaxLineWidth(m, Tail(lines))
         IN  IF w < rest THEN rest ELSE w

\* C2: the size of the rectangle of dry_run(s) equals the size of the
\* bounds of build(s), for every metrics set, alignment and string,
\* including the empty string and strings with '\r' and '\n'.
C2_DryRunEqualsBuild ==
    (sys = "layout" /\ lay.pc = "done") =>
        lay.dry[1].size = lay.out[1].bounds.size

\* C2 witness: a string with a '\r' and a '\n' was built into two lines.
C2_Witness ==
    /\ sys = "layout" /\ lay.pc = "done"
    /\ \E i, j \in DOMAIN lay.string : lay.string[i] = CR /\ lay.string[j] = LF
    /\ Len(lay.b[1].finished_lines) = 2
    /\ lay.out[1].bounds.size.w > 0

\* C3: for every character code c in 0..255, glyph_top_left(c) is
\* ((c mod 32) * padded_w, (c div 32) * padded_h), the product not wrapping
\* at 8 bits: with padded_w = 10, c = 31 gives x = 310, and with
\* padded_h = 10, c = 255 gives y = 70.
C3_GlyphTopLeft ==
    (sys = "grid" /\ grid.top_left # None /\ grid.char <= 255) =>
        LET pw == grid.m.char.w + grid.m.pad.w
            ph == grid.m.char.h + grid.m.pad.h
            p == grid.top_left[1]
        IN  /\ p.x = (grid.char % 32) * pw
            /\ p.y = (grid.char \div 32) * ph
            /\ (pw = 10 /\ grid.char = 31) => p.x = 310
            /\ (ph = 10 /\ grid.char = 255) => p.y = 70

\* C3 witness: character 31 was addressed in a font of padded width 10.
C3_Witness ==
    /\ sys = "grid" /\ grid.top_left # None
    /\ grid.char = 31 /\ grid.m.char.w + grid.m.pad.w = 10
    /\ grid.top_left[1].x = 310

\* C4: span_w_str(s) is the sum of the widths of the characters of s
\* (override width where one applies, grid width otherwise) plus the sum of
\* the spacings between its adjacent characters, and 0 for the empty
\* string; with big_font, "Icing" measures 33.
C4_SpanWStr ==
    (sys = "layout" /\ lay.span # None) =>
        /\ lay.span[1] = SumWidths(LayoutSpecs[lay.font], lay.string)
                            + SumSpacings(LayoutSpecs[lay.font], lay.string)
        /\ lay.string = <<>> => lay.span[1] = 0
        /\ (lay.font = "big" /\ lay.string = Icing) => lay.span[1] = 33

\* C4 witness: "Icing" was measured with big_font.
C4_Witness ==
    /\ sys = "layout" /\ lay.span # None
    /\ lay.font = "big" /\ lay.string = Icing /\ lay.span[1] = 33

\* C5: building the empty string returns the default laid-out string:
\* bounds of zero size at the origin and no glyphs, for every metrics set
\* and alignment, and no line is committed.
C5_EmptyString ==
    (sys = "layout" /\ lay.pc = "done" /\ lay.string = <<>>) =>
        /\ lay.out[1] = String_default
        /\ lay.out[1].bounds.size = [w |-> 0, h |-> 0]
        /\ lay.out[1].bounds.top_left = [x |-> 0, y |-> 0]
        /\ DOMAIN lay.out[1].glyphs = {}
        /\ lay.b[1].finished_lines = <<>>

\* C5 witness: the empty string was built with Right alignment.
C5_Witness ==
    /\ sys = "layout" /\ lay.pc = "done"
    /\ lay.string = <<>> /\ lay.alignment = "Right"

\* C6: for a string of n >= 1 lines of positive width separated by single
\* '\n' characters, the bounds width is the maximum of the line widths and
\* the bounds height is n * (char.h + pad.h) - pad.h; a line without '\r'
\* is as wide as its characters and the spacings between them.
C6_MultiLineBounds ==
    (sys = "layout" /\ lay.pc = "done") =>
        LET lines == SplitLines(lay.string, <<>>)
            n == Len(lines)
        IN  (\A k \in 1..n : dry_run(Font, lay.alignment, lines[k]).size.w > 0) =>
                /\ lay.out[1].bounds.size.w = MaxLineWidth(Font, lines)
                /\ lay.out[1].bounds.size.h
                       = n * (Font.char.h + Font.pad.h) - Font.pad.h
                /\ \A k \in 1..n :
                    CR \notin CharsOf(lines[k]) =>
                        dry_run(Font, lay.alignment, lines[k]).size.w
                            = SumWidths(LayoutSpecs[lay.font], lines[k])
                                + SumSpacings(LayoutSpecs[lay.font], lines[k])

\* C6 witness: two lines of different positive widths were built.
C6_Witness ==
    /\ sys = "layout" /\ lay.pc = "done"
    /\ LET lines == SplitLines(lay.string, <<>>)
       IN  /\ Len(lines) = 2
           /\ dry_run(Font, lay.alignment, lines[1]).size.w > dry_run(Font, lay.alignment, lines[2]).size.w
           /\ dry_run(Font, lay.alignment, lines[2]).size.w > 0
           /\ lay.out[1].bounds.size.h = 2 * (Font.char.h + Font.pad.h) - Font.pad.h

\* The destination delta of the last character of a finished line, after
\* build has realigned the line.
LastDelta(m, b, line, total_width) ==
    LET c == line.text[Len(line.text)]
        src == char_src_rect(m, c, Table_index(m.chars, c))
        g == GlyphSet_realign(line.glyphs, b.alignment, line.size.w, total_width)
    IN  g[src][Len(g[src])]

\* C7: for Right-aligned text, after build has realigned the lines, in every
\* line the destination delta of the line's last character has
\* dx = total bounds width - source width of that character.
C7_RightAlignedLastGlyph ==
    (sys = "layout" /\ lay.pc = "done" /\ lay.alignment = "Right"
        /\ lay.string # <<>>) =>
        \A k \in 1..Len(lay.b[1].finished_lines) :
            LET line == lay.b[1].finished_lines[k]
                c == line.text[Len(line.text)]
                d == LastDelta(Font, lay.b[1], line, lay.out[1].bounds.size.w)
            IN  /\ d.dx = lay.out[1].bounds.size.w - Table_index(Font.chars, c).width
                /\ \E i \in DOMAIN lay.out[1].glyphs[char_src_rect(Font, c, Table_index(Font.chars, c))] :
                    lay.out[1].glyphs[char_src_rect(Font, c, Table_index(Font.chars, c))][i] = d

(***************************************************************************)
(* Claims about the compiled character table.                              *)
(***************************************************************************)

\* The characters of the width-override classes of a metrics spec.
WidthTouched(spec) == UNION {CharsOf(k) : k \in DOMAIN spec.width_overrides}

\* The characters of the left classes that the kerning pairs of a metrics
\* spec name.
LeftTouched(spec) ==
    UNION {CharsOf(spec.kerning.left[p[1]]) :
              p \in {q \in DOMAIN spec.kerning.pairs :
                         q[1] \in DOMAIN spec.kerning.left}}

\* C11: after a successful compile the character table is total: the lookup
\* of any character, ASCII or not, gives an entry; a character in no
\* width-override class that is the left character of no kerning pair gets
\* the default entry: the grid width, no rightward kerning and the default
\* spacing.
C11_TableTotal ==
    sys = "compile" =>
        \A n \in 1..Len(comp.outs) :
            LET t == comp.outs[n].table
            IN  t.ok =>
                    \A c \in QueryChars :
                        LET e == Table_index(t.table[1], c)
                        IN  /\ DOMAIN e = {"width", "rights", "default_kerning"}
                            /\ c \notin WidthTouched(comp.spec) \cup LeftTouched(comp.spec)
                                => e = [width |-> comp.spec.char.w, rights |-> None,
                                        default_kerning |-> comp.spec.pad.w]

\* C11 witness: a table was compiled in which U+30B3 has an entry of its own
\* while 'c' and U+00FF, which no class of a width or left table holds, are
\* looked up.
C11_Witness ==
    /\ sys = "compile"
    /\ \E n \in 1..Len(comp.outs) :
        /\ comp.outs[n].table.ok
        /\ CH_ko \in WidthTouched(comp.spec) \cup LeftTouched(comp.spec)
        /\ Subtable_get(comp.outs[n].table.table[1].entries, CH_ko) # None
        /\ Subtable_get(comp.outs[n].table.table[1].entries, CH_c) = None
        /\ Subtable_get(comp.outs[n].table.table[1].entries, CH_yuml) = None
        /\ Table_index(comp.outs[n].table.table[1], CH_yuml).width = comp.spec.char.w

\* C12: in every successfully compiled character table every entry's width
\* is >= 0, whatever width overrides the spec contains.
C12_WidthNonNegative ==
    sys = "compile" =>
        \A n \in 1..Len(comp.outs) :
            comp.outs[n].table.ok =>
                \A c \in QueryChars :
                    Table_index(comp.outs[n].table.table[1], c).width >= 0

(***************************************************************************)
(* Further claims about the layout builder.                                *)
(***************************************************************************)

\* C13: the bounds of every laid-out string and every dry-run rectangle
\* have width >= 0 and height >= 0, for every string and every kerning
\* table, negative spacings included, the char and pad sizes being >= 0.
C13_BoundsNonNegative ==
    (sys = "layout" /\ lay.pc = "done") =>
        /\ lay.out[1].bounds.size.w >= 0
        /\ lay.out[1].bounds.size.h >= 0
        /\ lay.dry[1].size.w >= 0
        /\ lay.dry[1].size.h >= 0

\* C13 witness: a string was built whose only line has a negative width.
C13_Witness ==
    /\ sys = "layout" /\ lay.pc = "done"
    /\ Len(lay.b[1].finished_lines) = 1
    /\ lay.b[1].finished_lines[1].size.w < 0
    /\ lay.out[1].bounds.size.w = 0
    /\ lay.out[1].bounds.size.h > 0

(***************************************************************************)
(* The text writer (text.rs).                                              *)
(***************************************************************************)

\* font::Spec::default(): the default font id and the default colour id.
Spec_default == [id |-> "f1", colour |-> "c1"]

\* The font metrics map given to Writer::layout; resource::Map::get on it is
\* DefaultingHashMap::get.
WriterMetrics ==
    [id \in FontIds |-> IF id = "f1" THEN LayoutMetrics["big"]
                        ELSE LayoutMetrics["kerned"]]

\* layout::String::layout: the string laid out with its bounds' top-left at
\* the given position.
String_layout(fm, string, pos) ==
    [build(fm, "Left", string) EXCEPT !.bounds.top_left = pos]

\* layout::String::bounds.
String_bounds(str) == str.bounds

\* layout::String::offset_mut: the laid-out string moved by (dx, dy).
String_offset_mut(str, dx, dy) ==
    [str EXCEPT !.bounds.top_left = [x |-> @.x + dx, y |-> @.y + dy]]

\* Writer::new.
Writer_new ==
    [pos |-> Point_default, alignment |-> "Left", font_spec |-> Spec_default,
     current_str |-> <<>>, layout |-> String_default, layout_reusable |-> FALSE]

\* Writer::align_to.
align_to(w, alignment) ==
    IF w.alignment # alignment
    THEN [w EXCEPT !.alignment = alignment, !.layout_reusable = FALSE]
    ELSE w

\* A move that invalidates the layout even when the position is the same.
move_to_clearing(w, pos) == [w EXCEPT !.pos = pos, !.layout_reusable = FALSE]

\* Writer::move_to.
move_to(w, pos) ==
    IF w.pos # pos THEN [w EXCEPT !.pos = pos, !.layout_reusable = FALSE] ELSE w

\* Writer::set_font_spec.
set_font_spec(w, spec) == [w EXCEPT !.font_spec = spec]

\* Writer::set_font.
set_font(w, id) == [w EXCEPT !.font_spec.id = id]

\* Writer::set_fg.
set_fg(w, fg) == [w EXCEPT !.font_spec.colour = fg]

\* Writer::set_string.
set_string(w, str) ==
    [w EXCEPT !.current_str = str,
              !.layout_reusable = w.layout_reusable /\ (w.current_str = str)]

\* Writer::align_layout.
align_layout(w) ==
    IF w.alignment = "Left" THEN w
    ELSE [w EXCEPT !.layout =
            String_offset_mut(w.layout,
                X_offset(w.alignment, String_bounds(w.layout).size.w), 0)]

\* Writer::actually_layout.
actually_layout(w, metrics) ==
    LET fm == metrics[w.font_spec.id]
    IN  align_layout([w EXCEPT !.layout = String_layout(fm, w.current_str, w.pos)])

\* A layout that keeps the stored layout whatever has changed.
Writer_layout_keeping(w, metrics) == [w EXCEPT !.layout_reusable = TRUE]

\* Writer::layout.
Writer_layout(w, metrics) ==
    IF ~w.layout_reusable
    THEN actually_layout([w EXCEPT !.layout_reusable = TRUE], metrics)
    ELSE [w EXCEPT !.layout_reusable = TRUE]

\* Writer::render: what is handed to Renderer::write.
render(w) == [font |-> w.font_spec, str |-> w.layout]

\* The positions the writer is moved to: the origin and tl1 of the test
\* layout_hello_world.
WriterPoints == {Point_default, [x |-> 20, y |-> 10]}

WriterStrings == {<<>>, <<CH_a>>, <<CH_i, CH_a>>}

\* The writer, and beside it: the last operation, whether only move_to,
\* set_string, layout and render have been called so far, whether the last
\* layout call reused the stored layout, what render last emitted since
\* the last layout call, whether layout has been called at all, and whether
\* the string, position or alignment has changed since it was last called.
WrInit ==
    /\ sys = "writer"
    /\ wr = [w |-> Writer_new, last |-> "new", plain |-> TRUE,
             reused |-> FALSE, out |-> None, laid |-> FALSE, changed |-> FALSE]
    /\ slot_mapping = Idle /\ cache = Idle /\ textures = Idle /\ calls = Idle
    /\ comp = Idle /\ lay = Idle /\ grid = Idle /\ tab = Idle /\ stk = Idle

\* The bookkeeping of a call that sets something.
Setter(w, op, plain) ==
    [wr EXCEPT !.w = w, !.last = op, !.plain = wr.plain /\ plain, !.out = None,
               !.changed = \/ wr.changed
                           \/ w.current_str # wr.w.current_str
                           \/ w.pos # wr.w.pos
                           \/ w.alignment # wr.w.alignment]

\* A call of Writer::align_to.
AlignTo(alignment) ==
    /\ sys = "writer"
    /\ wr' = Setter(align_to(wr.w, alignment), "align_to", FALSE)
    /\ UNCHANGED non_wr

\* A call of Writer::move_to.
MoveTo(pos) ==
    /\ sys = "writer"
    /\ wr' = Setter(move_to(wr.w, pos), "move_to", TRUE)
    /\ UNCHANGED non_wr

\* A call of Writer::set_font_spec.
SetFontSpec(spec) ==
    /\ sys = "writer"
    /\ wr' = Setter(set_font_spec(wr.w, spec), "set_font_spec", FALSE)
    /\ UNCHANGED non_wr

\* A call of Writer::set_font.
SetFont(id) ==
    /\ sys = "writer"
    /\ wr' = Setter(set_font(wr.w, id), "set_font", FALSE)
    /\ UNCHANGED non_wr

\* A call of Writer::set_fg.
SetFg(fg) ==
    /\ sys = "writer"
    /\ wr' = Setter(set_fg(wr.w, fg), "set_fg", FALSE)
    /\ UNCHANGED non_wr

\* A call of Writer::set_string.
SetString(str) ==
    /\ sys = "writer"
    /\ wr' = Setter(set_string(wr.w, str), "set_string", TRUE)
    /\ UNCHANGED non_wr

\* A call of Writer::layout.
Layout ==
    /\ sys = "writer"
    /\ wr' = [wr EXCEPT !.w = Writer_layout(wr.w, WriterMetrics),
                        !.last = "layout", !.reused = wr.w.layout_reusable,
                        !.out = None, !.laid = TRUE, !.changed = FALSE]
    /\ UNCHANGED non_wr

\* A call of Writer::render.
Render ==
    /\ sys = "writer"
    /\ wr' = [wr EXCEPT !.out = Some(render(wr.w))]
    /\ UNCHANGED non_wr

WrNext ==
    \/ \E alignment \in Alignments : AlignTo(alignment)
    \/ \E pos \in WriterPoints : MoveTo(pos)
    \/ \E spec \in FontSpecs : SetFontSpec(spec)
    \/ \E id \in FontIds : SetFont(id)
    \/ \E fg \in ColourIds : SetFg(fg)
    \/ \E str \in WriterStrings : SetString(str)
    \/ Layout
    \/ Render

SpecWriter == WrInit /\ [][WrNext]_vars

(***************************************************************************)
(* Claims about the text writer.                                           *)
(***************************************************************************)

\* C14: the stored layout is recomputed by the next layout() call whenever
\* the string, the position, the font or the alignment has changed since the
\* previous one: after any sequence of set_string, move_to, set_font,
\* set_font_spec and align_to followed by layout(), the stored layout is the
\* layout of the current string with the current font's metrics, position
\* and alignment.
C14_LayoutRecomputed ==
    (sys = "writer" /\ wr.last = "layout") =>
        wr.w.layout = actually_layout(wr.w, WriterMetrics).layout

\* C15: with the default Left alignment, after any sequence of move_to and
\* set_string calls followed by layout(), render emits a laid-out string
\* whose string is the most recently set string and whose bounds' top-left
\* is the most recently set position, the first time and when the same
\* position and string are laid out again.
C15_RenderedStringAndPosition ==
    (sys = "writer" /\ wr.plain /\ wr.last = "layout" /\ wr.out # None) =>
        /\ wr.out[1].str.string = wr.w.current_str
        /\ String_bounds(wr.out[1].str).top_left = wr.w.pos

\* C15 witness: "ia" at tl1 was laid out a second time, the stored layout
\* was reused, and it was rendered.
C15_Witness ==
    /\ sys = "writer" /\ wr.plain /\ wr.last = "layout" /\ wr.out # None
    /\ wr.reused
    /\ wr.w.current_str = <<CH_i, CH_a>>
    /\ wr.w.pos # Point_default
    /\ wr.out[1].str.string = <<CH_i, CH_a>>

(***************************************************************************)
(* Further claims about the font managers.                                 *)
(***************************************************************************)

\* C16: fetching a spec whose font id is absent from the font path map
\* fails: the call returns an error, and no entry is added to the cache or
\* to the slot mapping (or to the textures of the SDL manager).
C16_UnknownFontFails ==
    sys = "mgr" =>
        /\ \A i \in 1..Len(calls) :
            (calls[i].op \in {"fetch", "texture"}
                /\ calls[i].spec.id \notin KnownFonts) => ~calls[i].ret.ok
        /\ \A spec \in DOMAIN slot_mapping : spec.id \in KnownFonts
        /\ \A spec \in DOMAIN textures : spec.id \in KnownFonts
        /\ \A i \in 1..Len(cache) : cache[i].path[1] \in KnownFonts

\* C17: the default font index is a sentinel for an unresolved font: no
\* successful fetch returns an index equal to Index::default().
C17_DefaultIndexIsSentinel ==
    sys = "mgr" =>
        \A i \in 1..Len(calls) :
            (calls[i].op = "fetch" /\ calls[i].ret.ok)
                => calls[i].ret.index # Index_default

\* The length of the cache when call j was made: the number of earlier
\* fetches that loaded a font and succeeded.
CacheLenAt(j) ==
    Cardinality({i \in 1..(j - 1) :
                    calls[i].op = "fetch" /\ calls[i].loaded /\ calls[i].ret.ok})

\* C18: the cache only grows.  Across fetch and data calls the cache never
\* gets shorter and no slot keeps other data; no slot-mapping entry is
\* removed or pointed at another index; data(i) for an index i that a fetch
\* has returned succeeds every time and returns the same data; data(i) for i
\* not below the cache length returns BadHandle.
C18_CacheOnlyGrows ==
    /\ [](sys = "mgr" =>
            \A j \in 1..Len(calls) :
                calls[j].op = "data" =>
                    /\ (\E i \in 1..(j - 1) :
                            /\ calls[i].op = "fetch" /\ calls[i].ret.ok
                            /\ calls[i].ret.index = calls[j].handle)
                        => /\ calls[j].ret.ok
                           /\ calls[j].ret.data = cache[calls[j].handle + 1]
                           /\ \A k \in 1..Len(calls) :
                                (calls[k].op = "data" /\ calls[k].ret.ok
                                    /\ calls[k].handle = calls[j].handle)
                                    => calls[k].ret.data = calls[j].ret.data
                    /\ calls[j].handle >= CacheLenAt(j)
                        => (~calls[j].ret.ok /\ calls[j].ret.err = "BadHandle"))
    /\ [][sys = "mgr" =>
            /\ Len(cache') >= Len(cache)
            /\ \A i \in 1..Len(cache) : cache'[i] = cache[i]
            /\ \A spec \in DOMAIN slot_mapping :
                /\ spec \in DOMAIN slot_mapping'
                /\ slot_mapping'[spec] = slot_mapping[spec]]_vars

\* C18 witness: two fonts are cached, and the data of the first was asked
\* for, and given, after the second was fetched.
C18_Witness ==
    /\ sys = "mgr"
    /\ Len(cache) = 2
    /\ \E i, j, k \in 1..Len(calls) :
        /\ i < j /\ j < k
        /\ calls[i].op = "fetch" /\ calls[i].ret.ok /\ calls[i].ret.index = 0
        /\ calls[j].op = "fetch" /\ calls[j].ret.ok /\ calls[j].ret.index = 1
        /\ calls[k].op = "data" /\ calls[k].handle = 0 /\ calls[k].ret.ok

(***************************************************************************)
(* Subtables (font/metrics/chars.rs): the state machine and its claim.     *)
(***************************************************************************)

\* Bound on the number of inserts into one subtable.
MaxInserts == 3

\* The keys inserted and looked up: two ASCII characters, one character
\* that is a byte but not ASCII, and one that is neither.
TabKeys == {CH_a, CH_b, CH_yuml, CH_ko}

\* The values of the tests subtable_get_ascii and subtable_get_non_ascii.
TabVals == {12, 39}

\* A new subtable, and the inserts made into it so far (ghost).
TabInit ==
    /\ sys = "subtable"
    /\ tab = [t |-> Subtable_new, log |-> <<>>]
    /\ slot_mapping = Idle /\ cache = Idle /\ textures = Idle /\ calls = Idle
    /\ comp = Idle /\ lay = Idle /\ grid = Idle /\ wr = Idle /\ stk = Idle

\* A call of Subtable::insert.
Insert(key, val) ==
    /\ sys = "subtable"
    /\ Len(tab.log) < MaxInserts
    /\ tab' = [t |-> Subtable_insert(tab.t, key, val),
               log |-> Append(tab.log, <<key, val>>)]
    /\ UNCHANGED non_tab

TabNext == \E key \in TabKeys, val \in TabVals : Insert(key, val)

SpecSubtable == TabInit /\ [][TabNext]_vars

\* The positions in the log of the inserts under key k.
InsertsOf(k) == {i \in 1..Len(tab.log) : tab.log[i][1] = k}

\* C19: after any sequence of inserts, get(k) returns the value most
\* recently inserted under k, and None for a key never inserted, for ASCII
\* and non-ASCII keys alike; an insert under one key changes no other key's
\* value.
C19_SubtableInsertGet ==
    /\ [](sys = "subtable" =>
            \A k \in TabKeys :
                IF InsertsOf(k) = {} THEN Subtable_get(tab.t, k) = None
                ELSE LET last == CHOOSE i \in InsertsOf(k) :
                                    \A j \in InsertsOf(k) : j <= i
                     IN  Subtable_get(tab.t, k) = Some(tab.log[last][2]))
    /\ [][sys = "subtable" =>
            \A k \in TabKeys :
                k # tab'.log[Len(tab'.log)][1]
                    => Subtable_get(tab'.t, k) = Subtable_get(tab.t, k)]_vars

\* C19 witness: U+30B3 was inserted twice with different values and 'a'
\* once; get gives the second value of U+30B3, and nothing for 'b'.
C19_Witness ==
    /\ sys = "subtable"
    /\ Cardinality(InsertsOf(CH_ko)) = 2
    /\ InsertsOf(CH_a) # {}
    /\ \E i, j \in InsertsOf(CH_ko) :
        i < j /\ tab.log[i][2] # tab.log[j][2]
            /\ Subtable_get(tab.t, CH_ko) = Some(tab.log[j][2])
    /\ Subtable_get(tab.t, CH_b) = None

(***************************************************************************)
(* Claims about line feeds in the layout builder.                          *)
(***************************************************************************)

\* A step of the builder that runs line_feed: for a '\n' of the string, or
\* for the implicit newline at its end.
LineFeedStep ==
    /\ sys = "layout" /\ lay.b # None /\ lay'.b # None
    /\ \/ lay'.pos = lay.pos + 1 /\ lay.string[lay'.pos] = LF
       \/ lay.pc = "loop" /\ lay'.pc = "laid"

\* C20: every '\n' of the input, and the end of the input, commits the
\* current line: the line is appended to the finished lines, its size is
\* stacked under the bounds, the cursor goes to dx = 0 and down by one
\* padded line height, the last character is cleared, and the line in
\* progress is reset with height char.h + pad.h.
C20_LineFeedCommits ==
    [][LineFeedStep =>
        LET b == lay.b[1]
            b2 == lay'.b[1]
        IN  /\ b2.finished_lines = Append(b.finished_lines, b.current_line)
            /\ b2.bounds.size = stack_vertically(b.bounds.size, b.current_line.size)
            /\ b2.cursor = [dx |-> 0, dy |-> b.cursor.dy + Font.char.h + Font.pad.h]
            /\ b2.last_char_metrics = None
            /\ b2.current_line.size = [w |-> 0, h |-> Font.char.h + Font.pad.h]
            /\ DOMAIN b2.current_line.glyphs = {}]_vars

(***************************************************************************)
(* Claims about carriage returns and character placement.                  *)
(***************************************************************************)

\* A step of the builder on the next character of the string.
BuilderStep ==
    /\ sys = "layout" /\ lay.b # None /\ lay'.b # None
    /\ lay'.pos = lay.pos + 1

\* The delta most recently pushed for character c into the line in progress.
PushedDelta(m, b, c) ==
    LET src == char_src_rect(m, c, Table_index(m.chars, c))
    IN  b.current_line.glyphs[src][Len(b.current_line.glyphs[src])]

\* C21: a '\r' resets the horizontal cursor to 0 and clears the last
\* character, and leaves the vertical cursor, the bounds and the finished
\* lines alone; the character after it is placed at dx = 0, with no kerning
\* and no advance applied between it and the character before the '\r'.
C21_CarriageReturn ==
    [][BuilderStep =>
        LET b == lay.b[1]
            b2 == lay'.b[1]
            c == lay.string[lay'.pos]
        IN  /\ c = CR =>
                /\ b2.cursor.dx = 0
                /\ b2.last_char_metrics = None
                /\ b2.cursor.dy = b.cursor.dy
                /\ b2.bounds = b.bounds
                /\ b2.finished_lines = b.finished_lines
            /\ (c \notin {CR, LF} /\ lay.pos >= 1 /\ lay.string[lay.pos] = CR) =>
                /\ PushedDelta(Font, b2, c) = [dx |-> 0, dy |-> b.cursor.dy]
                /\ b2.cursor.dx = 0
                /\ b2.current_line.size.w
                       = b.current_line.size.w + Table_index(Font.chars, c).width]_vars

\* C21 witness: in the kerned font, "a\ri" has been laid out up to the 'i',
\* which without the '\r' would be kerned against the 'a'.
C21_Witness ==
    /\ sys = "layout" /\ lay.font = "kerned" /\ lay.b # None
    /\ lay.pos = 3
    /\ lay.string[1] = CH_a /\ lay.string[2] = CR /\ lay.string[3] = CH_i
    /\ Entry_kerning(Table_index(Font.chars, CH_a), CH_i) # 0
    /\ PushedDelta(Font, lay.b[1], CH_i).dx = 0

\* The position at which the text line holding position p of s starts.
RECURSIVE LineStart(_, _)
LineStart(s, p) ==
    IF p = 1 \/ s[p - 1] = LF THEN p ELSE LineStart(s, p - 1)

\* The advances (width plus kerning against the successor) of s[from..to].
RECURSIVE SumAdvances(_, _, _, _)
SumAdvances(m, s, from, to) ==
    IF from > to THEN 0
    ELSE Table_index(m.chars, s[from]).width
             + Entry_kerning(Table_index(m.chars, s[from]), s[from + 1])
             + SumAdvances(m, s, from + 1, to)

\* C22: within one line without '\r', under Left alignment, the i-th
\* character is placed at dx = the sum over the earlier characters of the
\* line of width plus kerning against the successor, and dy = the number of
\* lines committed before it times the padded height; its source rectangle
\* has its grid top-left, its own width and height char.h; and the line's
\* accumulated width is the sum of its widths and adjacent-pair kernings.
C22_CharPlacement ==
    [][(/\ BuilderStep
        /\ lay.alignment = "Left"
        /\ lay.string[lay'.pos] \notin {CR, LF}
        /\ \A j \in LineStart(lay.string, lay'.pos) .. lay'.pos : lay.string[j] # CR) =>
        LET b == lay.b[1]
            b2 == lay'.b[1]
            p == lay'.pos
            c == lay.string[p]
            from == LineStart(lay.string, p)
            src == [top_left |-> glyph_top_left(Font, c),
                    size |-> [w |-> Table_index(Font.chars, c).width, h |-> Font.char.h]]
        IN  /\ src \in DOMAIN b2.current_line.glyphs
            /\ b2.current_line.glyphs[src][Len(b2.current_line.glyphs[src])]
                   = [dx |-> SumAdvances(Font, lay.string, from, p - 1),
                      dy |-> Len(b.finished_lines) * (Font.char.h + Font.pad.h)]
            /\ b2.current_line.size.w
                   = SumAdvances(Font, lay.string, from, p - 1)
                         + Table_index(Font.chars, c).width]_vars

(***************************************************************************)
(* Claims about compiled kerning.                                          *)
(***************************************************************************)

\* The pairs of the kerning spec k whose left class holds l and whose right
\* class holds r.
Covering(k, l, r) ==
    {p \in DOMAIN k.pairs :
        /\ p[1] \in DOMAIN k.left /\ l \in CharsOf(k.left[p[1]])
        /\ p[2] \in DOMAIN k.right /\ r \in CharsOf(k.right[p[2]])}

\* C23: after a successful compile, the spacing of (l, r) is the length of a
\* kerning pair, in place of the default, exactly when some pair's left
\* class holds l and its right class holds r, and the default spacing
\* otherwise; so a pair never sets the spacing of the mirrored (r, l).  The
\* kerning map and the merged character table agree on it.
C23_KerningPairs ==
    sys = "compile" =>
        \A n \in 1..Len(comp.outs) :
            (comp.outs[n].kerning.ok /\ comp.outs[n].table.ok) =>
                LET k == comp.spec.kerning
                    map == comp.outs[n].kerning.map[1]
                    table == comp.outs[n].table.table[1]
                IN  \A l \in QueryChars, r \in QueryChars :
                        LET cov == Covering(k, l, r)
                            s == spacing(map, l, r)
                        IN  /\ cov # {} => s \in {k.pairs[p] : p \in cov}
                            /\ cov = {} => s = comp.spec.pad.w
                            /\ Entry_kerning(Table_index(table, l), r) = s

\* C23 witness: a compiled spec whose pairs cover ('a', 'i') with a length
\* other than the default, leave the mirrored ('i', 'a') and the pair
\* ('b', U+00FF) at the default, and cover (U+30B3, U+00FF).
C23_Witness ==
    /\ sys = "compile"
    /\ \E n \in 1..Len(comp.outs) :
        /\ comp.outs[n].kerning.ok /\ comp.outs[n].table.ok
        /\ Covering(comp.spec.kerning, CH_a, CH_i) # {}
        /\ Covering(comp.spec.kerning, CH_ko, CH_yuml) # {}
        /\ Covering(comp.spec.kerning, CH_b, CH_yuml) = {}
        /\ spacing(comp.outs[n].kerning.map[1], CH_a, CH_i) # comp.spec.pad.w
        /\ spacing(comp.outs[n].kerning.map[1], CH_i, CH_a) = comp.spec.pad.w
        /\ spacing(comp.outs[n].kerning.map[1], CH_b, CH_yuml) = comp.spec.pad.w

\* C24: when layout() is called again with no change of string, position or
\* alignment since the previous call (setter calls with equal values are no
\* change), the call computes no layout and leaves the stored layout as it
\* is; the first layout() of a new writer always computes.
C24_LayoutReused ==
    [][Layout =>
        /\ (wr.laid /\ ~wr.changed) =>
              /\ wr'.reused
              /\ wr'.w.layout = wr.w.layout
        /\ ~wr.laid => ~wr'.reused]_vars

\* C24 witness: a layout() call has just reused the stored layout of "ia",
\* right-aligned at tl1.
C24_Witness ==
    /\ sys = "writer" /\ wr.last = "layout" /\ wr.reused
    /\ wr.w.current_str = <<CH_i, CH_a>>
    /\ wr.w.pos = [x |-> 20, y |-> 10]
    /\ wr.w.alignment = "Right"
    /\ wr.w.layout.string = wr.w.current_str

(***************************************************************************)
(* Claims about failed loads and the slot mapping.                         *)
(***************************************************************************)

\* C25: when the load fails during the fetch of a spec that is not cached,
\* the call returns the load error, does not colourise, and changes neither
\* the cache nor the slot mapping; the load is not tried again within the
\* call.  The same holds of the textures of the SDL manager.
C25_FailedLoad ==
    /\ [](sys = "mgr" =>
            /\ \A spec \in FontSpecs \ DOMAIN slot_mapping :
                LET r == fetch(slot_mapping, cache, spec, FALSE)
                IN  /\ r.ret = Err("TextureLoad", -1)
                    /\ r.loaded /\ ~r.colourised
                    /\ r.slot_mapping = slot_mapping /\ r.cache = cache
            /\ \A spec \in FontSpecs \ DOMAIN textures :
                LET r == texture(textures, spec, FALSE)
                IN  /\ r.ret = Err("TextureLoad", -1)
                    /\ ~r.colourised
                    /\ r.textures = textures)
    /\ [][(sys = "mgr" /\ Len(calls') = Len(calls) + 1
             /\ ~calls'[Len(calls')].ret.ok
             /\ calls'[Len(calls')].op \in {"fetch", "texture"}) =>
            /\ calls'[Len(calls')].ret.err = "TextureLoad"
            /\ ~calls'[Len(calls')].colourised
            /\ slot_mapping' = slot_mapping
            /\ cache' = cache
            /\ textures' = textures]_vars

\* C25 witness: with one font cached, the fetch of another spec failed to
\* load, and the cache and slot mapping still hold just the first.
C25_Witness ==
    /\ sys = "mgr" /\ Len(calls) = 2
    /\ calls[1].op = "fetch" /\ calls[1].ret.ok
    /\ calls[2].op = "fetch" /\ calls[2].loaded /\ ~calls[2].ret.ok
    /\ calls[2].spec # calls[1].spec
    /\ Len(cache) = 1 /\ DOMAIN slot_mapping = {calls[1].spec}

\* C26: after any sequence of fetch calls on one cached manager, every index
\* in the slot mapping is below the cache length, distinct specs map to
\* distinct indices, and there are as many mapped specs as cache slots.
C26_SlotMappingBijective ==
    sys = "mgr" =>
        /\ \A spec \in DOMAIN slot_mapping :
            slot_mapping[spec] >= 0 /\ slot_mapping[spec] < Len(cache)
        /\ \A s1 \in DOMAIN slot_mapping, s2 \in DOMAIN slot_mapping :
            s1 # s2 => slot_mapping[s1] # slot_mapping[s2]
        /\ Cardinality(DOMAIN slot_mapping) = Len(cache)

\* C26 witness: three fetches, one of them of a spec already cached, have
\* left two specs mapped to the two cache slots.
C26_Witness ==
    /\ sys = "mgr" /\ Len(calls) = 3
    /\ \A i \in 1..3 : calls[i].op = "fetch"
    /\ \E i \in 2..3 : ~calls[i].loaded
    /\ Len(cache) = 2
    /\ {slot_mapping[spec] : spec \in DOMAIN slot_mapping} = {0, 1}

(***************************************************************************)
(* Claims about the glyphs and the width of a built string.                *)
(***************************************************************************)

\* The positions of s that hold a character other than '\r' and '\n'.
GlyphPositions(s) == {i \in 1..Len(s) : s[i] \notin {CR, LF}}

\* The source rectangle of character c.
SrcOf(m, c) == char_src_rect(m, c, Table_index(m.chars, c))

\* The number of deltas a glyph set holds under a source rectangle.
DeltaCount(glyphs, src) == IF src \in DOMAIN glyphs THEN Len(glyphs[src]) ELSE 0

\* C27: the glyph set of build(s) holds as many deltas as s has characters
\* other than '\r' and '\n': each such character has exactly one delta, under
\* its own source rectangle, none lost or duplicated by the line commits or
\* by the merge of the lines' glyph sets.
C27_OneDeltaPerChar ==
    (sys = "layout" /\ lay.pc = "done") =>
        LET g == lay.out[1].glyphs
            at == GlyphPositions(lay.string)
        IN  \A src \in DOMAIN g \cup {SrcOf(Font, lay.string[i]) : i \in at} :
                DeltaCount(g, src)
                    = Cardinality({i \in at : SrcOf(Font, lay.string[i]) = src})

\* C28: for every non-empty string s, build(s followed by one '\n') has the
\* same bounds and the same glyph set as build(s): the implicit line feed
\* commits the last line once, and a line feed on a committed line changes
\* nothing.
C28_TrailingLineFeed ==
    (sys = "layout" /\ lay.pc = "done" /\ lay.string # <<>>) =>
        LET fed == build(Font, lay.alignment, Append(lay.string, LF))
        IN  /\ fed.bounds = lay.out[1].bounds
            /\ fed.glyphs = lay.out[1].glyphs

\* C28 witness: a right-aligned string of two lines, ending in a character,
\* was built into a glyph set that holds its last character.
C28_Witness ==
    /\ sys = "layout" /\ lay.pc = "done" /\ lay.alignment = "Right"
    /\ Len(lay.string) >= 3
    /\ lay.string[Len(lay.string)] \notin {CR, LF}
    /\ Len(lay.b[1].finished_lines) = 2
    /\ SrcOf(Font, lay.string[Len(lay.string)]) \in DOMAIN lay.out[1].glyphs
    /\ build(Font, lay.alignment, Append(lay.string, LF)).glyphs = lay.out[1].glyphs

\* C29: the two layout paths agree on width: for every string s without
\* '\r' or '\n', span_w_str(s) of the metrics equals the width of
\* dry_run(s) of a builder over the same metrics.
C29_PathsAgreeOnWidth ==
    (sys = "layout" /\ lay.dry # None /\ lay.span # None
        /\ CR \notin CharsOf(lay.string) /\ LF \notin CharsOf(lay.string)) =>
        lay.span[1] = lay.dry[1].size.w

(***************************************************************************)
(* The stack widget (ui/widgets/stack.rs), holding spacers.                *)
(***************************************************************************)

\* Bound on the number of widgets pushed onto the stack.
MaxEntries == 3

\* Bound on the number of layout calls.
MaxLayouts == 1

Axes == {"Horizontal", "Vertical"}

\* metrics::Axis::normal: the other axis.
Axis_normal(axis) == IF axis = "Horizontal" THEN "Vertical" ELSE "Horizontal"

\* Index<Axis> for Size: the length of a size along an axis.
Size_index(size, axis) == IF axis = "Horizontal" THEN size.w ELSE size.h

\* metrics::Axis::size: the size with one length along and one across an axis.
Axis_size(axis, along, across) ==
    IF axis = "Horizontal" THEN [w |-> along, h |-> across]
    ELSE [w |-> across, h |-> along]

\* IndexMut<Axis> for Point, as used by `top_left[orientation] += allocation`.
Point_advance(point, axis, by) ==
    IF axis = "Horizontal" THEN [point EXCEPT !.x = @ + by]
    ELSE [point EXCEPT !.y = @ + by]

\* Size::stack_horizontally.
stack_horizontally(self, other) ==
    [w |-> self.w + other.w, h |-> IF self.h < other.h THEN other.h ELSE self.h]

\* metrics::Axis::stack_many: the sizes stacked along the axis, from the
\* default size.
RECURSIVE stack_many(_, _)
stack_many(axis, sizes) ==
    IF sizes = <<>> THEN Size_default
    ELSE LET rest == stack_many(axis, SubSeq(sizes, 1, Len(sizes) - 1))
             size == sizes[Len(sizes)]
         IN  IF axis = "Horizontal" THEN stack_horizontally(rest, size)
             ELSE stack_vertically(rest, size)

\* Spacer::new_with_bounds, with the bounds the spacer has on creation.
Spacer_new(bounds) == [bounds |-> Rect_default, min_bounds_source |-> bounds]

\* Entry::new.
Entry_new(widget, ratio) ==
    [widget |-> widget, ratio |-> ratio, min_bounds |-> Size_default,
     visible |-> FALSE]

\* Stack::new.
Stack_new(orientation) ==
    [bounds |-> Rect_default, orientation |-> orientation, contents |-> <<>>]

\* Stack::push.
push(stack, widget, ratio) ==
    [stack EXCEPT !.contents = Append(@, Entry_new(widget, ratio))]

\* compute_min_bounds, over spacers: each entry takes its widget's min_bounds.
compute_min_bounds(stack) ==
    [stack EXCEPT !.contents =
        [i \in DOMAIN stack.contents |->
            [stack.contents[i] EXCEPT
                !.min_bounds = stack.contents[i].widget.min_bounds_source]]]

\* The filter_map of Stack::occupied_size: the minimum bounds of the entries
\* of ratio 0, in order.
RECURSIVE fixed_min_bounds(_)
fixed_min_bounds(contents) ==
    IF contents = <<>> THEN <<>>
    ELSE IF Head(contents).ratio = 0
    THEN <<Head(contents).min_bounds>> \o fixed_min_bounds(Tail(contents))
    ELSE fixed_min_bounds(Tail(contents))

\* Stack::occupied_size.
occupied_size(stack) ==
    stack_many(stack.orientation, fixed_min_bounds(stack.contents))

\* Stack::gap.
gap(stack) ==
    LET result == Size_index(stack.bounds.size, stack.orientation)
                      - Size_index(occupied_size(stack), stack.orientation)
    IN  IF result < 0 THEN 0 ELSE result

\* Stack::ratio_sum.
RECURSIVE ratio_sum_of(_)
ratio_sum_of(contents) ==
    IF contents = <<>> THEN 0
    ELSE Head(contents).ratio + ratio_sum_of(Tail(contents))

ratio_sum(stack) == ratio_sum_of(stack.contents)

\* Entry::allocation.
allocation(entry, gap_per_ratio, axis) ==
    IF entry.ratio = 0 THEN Size_index(entry.min_bounds, axis)
    ELSE entry.ratio * gap_per_ratio

\* Layoutable::layout of Entry, over a spacer.
Entry_layout(entry, bounds) ==
    [entry EXCEPT !.widget.bounds = bounds,
                  !.visible = ~(bounds.size.w <= 0 \/ bounds.size.h <= 0)]

\* The loop of Stack::layout over except_last, from entry i on, and the
\* layout of the last entry.  Ord::clamp panics when its lower limit is above
\* its upper limit, and the assertion panics when it fails; a panic leaves
\* the stack as it was then.
RECURSIVE layout_loop(_, _, _, _, _, _)
layout_loop(stack, i, axis, perp_axis, top_left, length_per_ratio) ==
    LET entry == stack.contents[i]
    IN  IF i = Len(stack.contents)
        THEN LET size == Axis_size(stack.orientation,
                                   IF axis < 0 THEN 0 ELSE axis, perp_axis)
             IN  [stack |-> [stack EXCEPT !.contents[i] =
                                Entry_layout(entry, [top_left |-> top_left,
                                                     size |-> size])],
                  panic |-> "none"]
        ELSE IF 0 > axis
        THEN [stack |-> stack, panic |-> "clamp"]
        ELSE LET wanted == allocation(entry, length_per_ratio, stack.orientation)
                 alloc == IF wanted < 0 THEN 0
                          ELSE IF wanted > axis THEN axis ELSE wanted
                 size == Axis_size(stack.orientation, alloc, perp_axis)
                 laid == [stack EXCEPT !.contents[i] =
                             Entry_layout(entry, [top_left |-> top_left,
                                                  size |-> size])]
             IN  IF ~(0 <= axis - alloc)
                 THEN [stack |-> laid, panic |-> "assert"]
                 ELSE layout_loop(laid, i + 1, axis - alloc, perp_axis,
                                  Point_advance(top_left, stack.orientation, alloc),
                                  length_per_ratio)

\* Layoutable::layout of Stack.
Stack_layout(stack, bounds) ==
    LET s == compute_min_bounds([stack EXCEPT !.bounds = bounds])
        length_per_ratio == IF ratio_sum(s) = 0 THEN 0
                            ELSE gap(s) \div ratio_sum(s)
    IN  IF s.contents = <<>> THEN [stack |-> s, panic |-> "none"]
        ELSE layout_loop(s, 1, Size_index(s.bounds.size, s.orientation),
                         Size_index(s.bounds.size, Axis_normal(s.orientation)),
                         s.bounds.top_left, length_per_ratio)

\* The minimum sizes of the spacers pushed.
SpacerSizes == {[w |-> 0, h |-> 0], [w |-> 2, h |-> 1], [w |-> 5, h |-> 3]}

\* The ratios of the entries pushed: fixed, and two flexible shares.
Ratios == {0, 1, 2}

\* The rectangles the stack is laid out into: empty, ample, tight, of a
\* negative width, and of a negative width and height.
StackBounds ==
    {[top_left |-> [x |-> 1, y |-> 2], size |-> sz] :
        sz \in {[w |-> 0, h |-> 0], [w |-> 9, h |-> 7], [w |-> 3, h |-> 2],
                [w |-> -2, h |-> 4], [w |-> -3, h |-> -1]}}

\* The stack, how many layout calls were made, the last call, and whether
\* and where it panicked.
StkInit ==
    /\ sys = "stack"
    /\ stk \in [s : {Stack_new(o) : o \in Axes}, layouts : {0},
               last : {"new"}, panic : {"none"}]
    /\ slot_mapping = Idle /\ cache = Idle /\ textures = Idle /\ calls = Idle
    /\ comp = Idle /\ lay = Idle /\ grid = Idle /\ wr = Idle /\ tab = Idle

\* A call of Stack::push with a spacer.
Push(size, ratio) ==
    /\ sys = "stack" /\ stk.panic = "none"
    /\ Len(stk.s.contents) < MaxEntries
    /\ stk' = [stk EXCEPT !.s = push(stk.s, Spacer_new(size), ratio),
                          !.last = "push"]
    /\ UNCHANGED non_stk

\* A call of Stack::layout.  Nothing is called on a stack after a panic.
StackLayout(bounds) ==
    /\ sys = "stack" /\ stk.panic = "none"
    /\ stk.layouts < MaxLayouts
    /\ LET r == Stack_layout(stk.s, bounds)
       IN  stk' = [s |-> r.stack, layouts |-> stk.layouts + 1,
                   last |-> "layout", panic |-> r.panic]
    /\ UNCHANGED non_stk

StkNext ==
    \/ \E size \in SpacerSizes, ratio \in Ratios : Push(size, ratio)
    \/ \E bounds \in StackBounds : StackLayout(bounds)

SpecStack == StkInit /\ [][StkNext]_vars

(***************************************************************************)
(* Claims about the stack widget.                                          *)
(***************************************************************************)

\* The lengths along the stack's orientation given to its first n entries,
\* added up.
RECURSIVE Allocated(_, _)
Allocated(stack, n) ==
    IF n = 0 THEN 0
    ELSE Size_index(stack.contents[n].widget.bounds.size, stack.orientation)
             + Allocated(stack, n - 1)

\* C30: in Stack::layout, for every bounds rectangle and list of entries,
\* neither the assertion "axis should never become negative" nor the clamp
\* of an allocation to [0, remaining length] fails; the allocations of all
\* entries but the last add up to at most the stack's length along its
\* orientation, and the last entry gets exactly the length that remains.
C30_StackAllocations ==
    (sys = "stack" /\ stk.last = "layout" /\ stk.s.contents # <<>>) =>
        LET n == Len(stk.s.contents)
            length == Size_index(stk.s.bounds.size, stk.s.orientation)
        IN  /\ stk.panic = "none"
            /\ Allocated(stk.s, n - 1) <= length
            /\ Size_index(stk.s.contents[n].widget.bounds.size, stk.s.orientation)
                   = length - Allocated(stk.s, n - 1)

=============================================================================
